---- MODULE Spec2Model ----
(***************************************************************************)
(* Model of the background queue layer of image_project.                   *)
(*                                                                         *)
(* Part A: QueueService (app/services/queue/queue_service.py) with RQ      *)
(*         workers running process_image_task (app/services/queue/         *)
(*         worker.py).  The queue record is one JSON value under           *)
(*         queue:<id>:data, read with GET and written back with SET.       *)
(* Part B: RedisQueueService (app/services/redis_queue_service.py) with    *)
(*         the QueueWorker dispatcher (app/services/queue_worker.py) and   *)
(*         the discovery loop of app/main.py.  Its record is the hash      *)
(*         queue_info:<id>, its pending tasks the list queue:<id>.         *)
(*                                                                         *)
(* The two services keep their state under disjoint keys and never call    *)
(* each other; impl records which of them a behaviour follows.  Every key  *)
(* carries the queue id, so Spec follows the queue with id 1 through all   *)
(* interleavings; SpecQuota follows up to MaxQueues queues.                *)
(***************************************************************************)
EXTENDS Integers, Sequences, FiniteSets, TLC

(* ---------------------------- bounds ----------------------------------- *)
MaxQueues == 6
MaxTasks == 2
NumWorkers == 2
MaxRapid == 6      \* cap on monitor_worker's consecutive_rapid_failures
MaxStreak == 12    \* cap on the count of consecutive failed worker runs
MaxSteps == 6      \* largest total_steps of a TimeEstimator
MaxUpdates == 3    \* TimeEstimator.update calls followed
MaxClock == 6      \* seconds of TimeEstimator clock followed
MaxProgressValue == 4   \* the `max` of a progress event of the video backend
MaxImages == 3          \* images of one batch generation task
MaxSeeds == 2           \* seeds of each image of a batch generation task
MaxSleepers == 1        \* earlier dispatchers of one queue still in their loop
MaxVideoTasks == 4      \* create_video_generation requests followed

(* ------------------------ program constants ---------------------------- *)
MAX_ACTIVE_QUEUES_PER_USER == 5
MIN_CONCURRENCY == 1
MAX_CONCURRENCY == 10
MAX_RETRIES == 10          \* main.py:195 max_retries
INITIAL_BACKOFF == 1       \* main.py:196 backoff_time
RAPID_WINDOW == 30         \* main.py:205
RAPID_LIMIT == 3           \* main.py:210
EXTRA_WAIT_STEP == 10      \* main.py:211
LONG_WAIT == 300           \* main.py:234
BACKOFF_BASE == 2          \* main.py:239
BACKOFF_CAP == 120         \* main.py:240
WINDOW_SIZE == 10          \* image_to_video.py:86-87
INFERENCE_WEIGHT == 7    \* image_to_video.py:362 and i2v_api.py:467, 0.7 in tenths
COMBINE_WEIGHT == 3      \* image_to_video.py:362 and i2v_api.py:460, 0.3 in tenths
COMBINE_BASE == 70       \* i2v_api.py:460
VARIANTS == 3            \* worker.py:125
FIRST_PROGRESS == 10     \* worker.py:122
VARIANT_STEP == 30       \* worker.py:170
VARIANT_CAP == 90        \* worker.py:170
FULL == 100              \* worker.py:187, i2v_api.py:504, image_to_video.py:316

AllQIds == 1..MaxQueues
RaceQIds == {1}
Workers == 1..NumWorkers
Users == {1, 2}
Callers == {1, 2}
VideoTasks == 1..MaxVideoTasks
TaskCounts == 0..MaxTasks
ConcurrencyInputs == {0, 11}
QuotaTaskCounts == {1}
QuotaConcurrencyInputs == {2}
QuotaWorkers == {1}
RunDurations == {0, 30}    \* seconds a run_worker call lasts: under or not under RAPID_WINDOW
TotalSteps == {1, MaxSteps}
Ticks == {1, 2}            \* seconds between two TimeEstimator.update calls

VARIABLES
    impl,         \* which service the behaviour follows: "QueueService" or "RedisQueueService"
    next_id,      \* next fresh queue id (stands for uuid4)
    ret,          \* what the last finished create / cancel call returned
    qdata,        \* A: queue:<id>:data, the JSON queue record (NoData when the key is absent)
    qtasks,       \* A: queue:<id>:tasks, the stored task list (its length; -1 when absent)
    user_queues,  \* A: user:<id>:queues, the owner's list of queue ids
    rq,           \* A: the RQ queue named <id>: jobs not yet taken by a worker
    done_sets,    \* A: queue:<id>:completed_tasks / queue:<id>:failed_tasks Redis sets
    wk,           \* A: RQ workers, each running process_image_task for one job
    canc,         \* A: a cancel_queue call in progress
    mark,         \* A: a mark_unfinished_queues_as_failed call in progress
    rinfo,        \* B: queue_info:<id>, the queue hash (NoInfo when absent)
    rpending,     \* B: queue:<id>, the list of pending task ids
    processing_queues, \* B: main.process_queues' set of queues with a running start_queue
    disp,         \* B: the start_queue coroutine of each queue
    pq_queue_id,  \* B: main.process_queues' loop variable queue_id (0 when unbound)
    sleepers,     \* B: earlier start_queue coroutines of each queue still in their loop
    cgq,          \* A: the create_generation_queue calls in progress, per caller
    vq,           \* i2v_api.py: task_queue, is_processing and the threads of the video tasks
    sw,           \* backend/queue_worker.py: stop_event, the monitor and the process_queue coroutines
    boot_id,      \* app process: next_id at the last startup_event (0 before the first restart)
    mon,          \* main.monitor_worker: its local variables and position
    est,          \* image_to_video.TimeEstimator: one estimator object and its clock
    i2v,          \* one process_video_generation run: generate_video's status dict and the database row
    bt            \* one batch generation task: its task_info hash and the images still to process

varsA == <<qdata, qtasks, user_queues, rq, done_sets, wk, canc, mark>>
varsB == <<rinfo, rpending, processing_queues, disp, pq_queue_id, sleepers>>
varsTask == <<i2v, bt>>
varsConc == <<cgq, vq, sw>>
varsAux == <<boot_id, mon, est, varsTask, varsConc>>
vars == <<impl, next_id, ret, varsA, varsB, varsAux>>

(* ----------------------------- records ---------------------------------- *)
NoData ==
    [user_id |-> 0, status |-> "none", error |-> "none", total_tasks |-> 0,
     total_completed |-> 0, total_failed |-> 0,
     completed_tasks |-> <<>>, failed_tasks |-> <<>>,
     concurrency |-> 0, completed_at |-> FALSE, cancelled_at |-> FALSE]
NoInfo == [user_id |-> 0, status |-> "none", total_tasks |-> 0, concurrency |-> 0]

IdleWorker == [pc |-> "idle", q |-> 0, image_id |-> 0, ok |-> FALSE, snap |-> NoData]
IdleCancel == [pc |-> "idle", q |-> 0, snap |-> NoData]
IdleMark == [pc |-> "idle", keys |-> {}, q |-> 0, snap |-> NoData, updated_count |-> 0]
NoRet == [op |-> "none", ok |-> FALSE]

(* main.py:194-198: monitor_worker's locals before the loop.  since_start   *)
(* is time.time() - last_start_time as far as the test of line 205 sees it  *)
(* (capped at RAPID_WINDOW); last_start_time = 0 puts it beyond the window. *)
(* slept, sleep_time and streak record the last wait and the number of      *)
(* failed runs since the last successful one; rapid_failed is the number of *)
(* latest runs in a row that failed less than RAPID_WINDOW seconds after    *)
(* their start.                                                             *)
InitMon ==
    [pc |-> "loop", retry_count |-> 0, backoff_time |-> INITIAL_BACKOFF,
     consecutive_rapid_failures |-> 0, since_start |-> RAPID_WINDOW,
     extra_wait |-> 0, sleep_time |-> 0, slept |-> "none", streak |-> 0,
     rapid_failed |-> 0]

(* image_to_video.py:26-37 TimeEstimator.__init__; the clock starts at      *)
(* start_time = 0.  Durations are exact fractions [num, den] of seconds.    *)
NoResult == [remaining |-> <<0, 0>>, elapsed |-> 0]
NewEstimator(total_steps) ==
    [total_steps |-> total_steps, step_times |-> <<>>, last_step_time |-> 0,
     last_step |-> 0, now |-> 0, calls |-> 0, result |-> NoResult]

(* image_to_video.py:253-274: the status dict of generate_video before the  *)
(* first event.  percent_complete is kept in tenths; -1: the key is absent. *)
NewI2VStatus ==
    [inference |-> FALSE, inference_progress |-> 0, video_combine |-> FALSE,
     video_progress |-> 0, completed |-> FALSE, percent_complete |-> -1]
(* database.py:376-378: the row of image_to_video_generations as inserted *)
NewRow == [status |-> "pending", progress |-> 0, error_message |-> "none",
           video_path |-> "none"]
IdleI2V == [pc |-> "idle", status |-> NewI2VStatus, row |-> NewRow]
(* redis_queue_service.py:25-55 create_task: the task_info hash of a batch task *)
IdleBatch == [pc |-> "idle", status |-> "pending", error |-> "none",
              progress |-> <<0, 1>>, completed_images |-> 0, total_images |-> 0,
              pending |-> <<>>]

(* queue_service.py:52-147: the locals of one create_generation_queue call *)
IdleCreate == [pc |-> "idle", user_id |-> 0, queue_id |-> 0, user_queues |-> <<>>]

(* i2v_api.py:33-40: task_queue = Queue(), is_processing = False; thread is  *)
(* the place of each task's process_task_and_check_queue, started and       *)
(* raised record the order of the calls of process_video_generation and     *)
(* the calls that raised                                                     *)
InitVideoQueue ==
    [task_queue |-> <<>>, is_processing |-> FALSE,
     thread |-> [t \in VideoTasks |-> "none"],
     next_task_id |-> 1, queued |-> <<>>, started |-> <<>>, raised |-> {}]

(* backend/queue_worker.py:37, 215-239: stop_event is clear, main awaits     *)
(* monitor_new_queues, no process_queue coroutine exists                     *)
InitStandalone ==
    [stop_event |-> FALSE, exited |-> FALSE, process_queue |-> [q \in AllQIds |-> "none"]]

Max(a, b) == IF a > b THEN a ELSE b
Min(a, b) == IF a < b THEN a ELSE b

(* queue_service.py:73  concurrency = max(1, min(10, concurrency)) *)
ClampConcurrency(c) == Max(MIN_CONCURRENCY, Min(MAX_CONCURRENCY, c))

(* the task list handed to create_generation_queue: image ids 1..n *)
TaskList(n) == [i \in 1..n |-> i]

(* variant of UpdatedQueueData: a failed task is appended to both lists *)
UpdatedQueueData_FailedInBothLists(d, status, error, completed_task, failed_task) ==
    LET d1 == IF status # "none" THEN [d EXCEPT !.status = status] ELSE d
        d2 == IF error # "none" THEN [d1 EXCEPT !.error = error] ELSE d1
        d3 == IF completed_task # 0 \/ failed_task # 0
              THEN [d2 EXCEPT !.completed_tasks =
                                  Append(@, IF completed_task # 0 THEN completed_task
                                            ELSE failed_task),
                              !.total_completed = Len(d2.completed_tasks) + 1]
              ELSE d2
        d4 == IF failed_task # 0
              THEN [d3 EXCEPT !.failed_tasks = Append(@, failed_task),
                              !.total_failed = Len(d3.failed_tasks) + 1]
              ELSE d3
        total_processed == d4.total_completed + d4.total_failed
    IN  IF total_processed >= d4.total_tasks
        THEN [d4 EXCEPT !.status = IF d4.total_failed = d4.total_tasks
                                   THEN "failed" ELSE "completed",
                        !.completed_at = TRUE]
        ELSE d4

(* queue_service.py:245-278: the body of _update_queue_status between the GET *)
(* and the SET.  status/error "none" and task 0 stand for None.              *)
UpdatedQueueData(d, status, error, completed_task, failed_task) ==
    LET d1 == IF status # "none" THEN [d EXCEPT !.status = status] ELSE d
        d2 == IF error # "none" THEN [d1 EXCEPT !.error = error] ELSE d1
        d3 == IF completed_task # 0
              THEN [d2 EXCEPT !.completed_tasks = Append(@, completed_task),
                              !.total_completed = Len(d2.completed_tasks) + 1]
              ELSE d2
        d4 == IF failed_task # 0
              THEN [d3 EXCEPT !.failed_tasks = Append(@, failed_task),
                              !.total_failed = Len(d3.failed_tasks) + 1]
              ELSE d3
        total_processed == d4.total_completed + d4.total_failed
    IN  IF total_processed >= d4.total_tasks
        THEN [d4 EXCEPT !.status = IF d4.total_failed = d4.total_tasks
                                   THEN "failed" ELSE "completed",
                        !.completed_at = TRUE]
        ELSE d4

(* queue_service.py:390-430 get_user_active_queues: the owner's listed queues *)
(* whose record exists with status waiting or processing                      *)
ActiveQueuesOf(u) ==
    SelectSeq(user_queues[u],
              LAMBDA q : qdata[q] # NoData /\ qdata[q].status \in {"waiting", "processing"})

(* ------------------------------- Init ----------------------------------- *)
Init ==
    /\ impl \in {"QueueService", "RedisQueueService"}
    /\ rinfo = [q \in AllQIds |-> NoInfo]
    /\ rpending = [q \in AllQIds |-> <<>>]
    /\ processing_queues = {}
    /\ disp = [q \in AllQIds |-> "none"]
    /\ pq_queue_id = 0
    /\ sleepers = [q \in AllQIds |-> 0]
    /\ cgq = [c \in Callers |-> IdleCreate]
    /\ vq = InitVideoQueue
    /\ sw = InitStandalone
    /\ qdata = [q \in AllQIds |-> NoData]
    /\ qtasks = [q \in AllQIds |-> -1]
    /\ user_queues = [u \in Users |-> <<>>]
    /\ rq = [q \in AllQIds |-> <<>>]
    /\ done_sets = [q \in AllQIds |-> [completed |-> {}, failed |-> {}]]
    /\ wk = [w \in Workers |-> IdleWorker]
    /\ canc = IdleCancel
    /\ mark = IdleMark
    /\ next_id = 1
    /\ ret = NoRet
    /\ boot_id = 0
    /\ mon = InitMon
    /\ i2v = IdleI2V
    /\ bt = IdleBatch
    /\ est = NewEstimator(MaxSteps)

(* variant of create_generation_queue: the quota test uses > instead of >= *)
create_generation_queue_QuotaOffByOne(u, n, c, ids) ==
    /\ impl = "QueueService"
    /\ next_id \in ids
    /\ IF Len(ActiveQueuesOf(u)) > MAX_ACTIVE_QUEUES_PER_USER
       THEN /\ ret' = [op |-> "create", ok |-> FALSE]
            /\ UNCHANGED <<qdata, qtasks, user_queues, rq, next_id>>
       ELSE LET queue_id == next_id
                queue_data == [NoData EXCEPT !.user_id = u, !.status = "waiting",
                                             !.total_tasks = n,
                                             !.concurrency = ClampConcurrency(c)]
            IN  /\ qdata' = [qdata EXCEPT ![queue_id] =
                                UpdatedQueueData(queue_data, "processing", "none", 0, 0)]
                /\ qtasks' = [qtasks EXCEPT ![queue_id] = n]
                /\ user_queues' = [user_queues EXCEPT ![u] = Append(@, queue_id)]
                /\ rq' = [rq EXCEPT ![queue_id] = TaskList(n)]
                /\ next_id' = next_id + 1
                /\ ret' = [op |-> "create", ok |-> TRUE]
    /\ UNCHANGED <<impl, done_sets, wk, canc, mark, varsB, varsAux>>

(* ------------------- A: create_generation_queue ------------------------- *)
(* queue_service.py:52-147 with _start_queue_processing (150-211): the quota *)
(* check, then the record, the task list, the owner list, status processing  *)
(* through _update_queue_status, and one RQ job per task.                    *)
create_generation_queue(u, n, c, ids) ==
    /\ impl = "QueueService"
    /\ next_id \in ids
    /\ IF Len(ActiveQueuesOf(u)) >= MAX_ACTIVE_QUEUES_PER_USER
       THEN /\ ret' = [op |-> "create", ok |-> FALSE]
            /\ UNCHANGED <<qdata, qtasks, user_queues, rq, next_id>>
       ELSE LET queue_id == next_id
                queue_data == [NoData EXCEPT !.user_id = u, !.status = "waiting",
                                             !.total_tasks = n,
                                             !.concurrency = ClampConcurrency(c)]
            IN  /\ qdata' = [qdata EXCEPT ![queue_id] =
                                UpdatedQueueData(queue_data, "processing", "none", 0, 0)]
                /\ qtasks' = [qtasks EXCEPT ![queue_id] = n]
                /\ user_queues' = [user_queues EXCEPT ![u] = Append(@, queue_id)]
                /\ rq' = [rq EXCEPT ![queue_id] = TaskList(n)]
                /\ next_id' = next_id + 1
                /\ ret' = [op |-> "create", ok |-> TRUE]
    /\ UNCHANGED <<impl, done_sets, wk, canc, mark, varsB, varsAux>>

(* ------------------- A: RQ worker / process_image_task ------------------ *)
(* variant of WorkerDequeue: the worker takes the job enqueued last *)
WorkerDequeue_TakesLast(w, q) ==
    /\ wk[w].pc = "idle"
    /\ \A v \in Workers : v < w => wk[v].pc # "idle"
    /\ rq[q] # <<>>
    /\ wk' = [wk EXCEPT ![w] = [IdleWorker EXCEPT !.pc = "running", !.q = q,
                                                  !.image_id = rq[q][Len(rq[q])]]]
    /\ rq' = [rq EXCEPT ![q] = SubSeq(@, 1, Len(@) - 1)]
    /\ UNCHANGED <<qdata, qtasks, user_queues, done_sets, canc, mark, next_id, ret, impl, varsB, varsAux>>

(* variant of WorkerDequeue: the job stays in the queue after it was taken *)
WorkerDequeue_KeepsJob(w, q) ==
    /\ wk[w].pc = "idle"
    /\ \A v \in Workers : v < w => wk[v].pc # "idle"
    /\ rq[q] # <<>>
    /\ wk' = [wk EXCEPT ![w] = [IdleWorker EXCEPT !.pc = "running", !.q = q,
                                                  !.image_id = Head(rq[q])]]
    /\ UNCHANGED <<rq, qdata, qtasks, user_queues, done_sets, canc, mark, next_id, ret, impl, varsB, varsAux>>

(* an RQ worker takes the job at the head of a queue it listens on *)
WorkerDequeue(w, q) ==
    /\ wk[w].pc = "idle"
    /\ \A v \in Workers : v < w => wk[v].pc # "idle"
    /\ rq[q] # <<>>
    /\ wk' = [wk EXCEPT ![w] = [IdleWorker EXCEPT !.pc = "running", !.q = q,
                                                  !.image_id = Head(rq[q])]]
    /\ rq' = [rq EXCEPT ![q] = Tail(@)]
    /\ UNCHANGED <<qdata, qtasks, user_queues, done_sets, canc, mark, next_id, ret, impl, varsB, varsAux>>

(* worker.py:62-221: the generation ends (ok: at least one variant produced);  *)
(* report_task_success / report_task_failure (queue_service.py:488-595) SADD   *)
(* the image id to the completed / failed set, then _update_queue_status       *)
(* (queue_service.py:236-243) reads the record (GET); a missing record ends    *)
(* the report                                                                  *)
report_task(w, ok) ==
    /\ wk[w].pc = "running"
    /\ done_sets' = [done_sets EXCEPT ![wk[w].q] =
                        IF ok THEN [@ EXCEPT !.completed = @ \cup {wk[w].image_id}]
                              ELSE [@ EXCEPT !.failed = @ \cup {wk[w].image_id}]]
    /\ IF qdata[wk[w].q] = NoData
       THEN wk' = [wk EXCEPT ![w] = IdleWorker]
       ELSE wk' = [wk EXCEPT ![w].pc = "write", ![w].ok = ok, ![w].snap = qdata[wk[w].q]]
    /\ UNCHANGED <<qdata, qtasks, user_queues, rq, canc, mark, next_id, ret, impl, varsB, varsAux>>

(* queue_service.py:245-287: _update_queue_status changes its copy and writes *)
(* it back (SET)                                                              *)
update_queue_status_set(w) ==
    /\ wk[w].pc = "write"
    /\ qdata' = [qdata EXCEPT ![wk[w].q] =
                    UpdatedQueueData(wk[w].snap, "none", "none",
                                     IF wk[w].ok THEN wk[w].image_id ELSE 0,
                                     IF wk[w].ok THEN 0 ELSE wk[w].image_id)]
    /\ wk' = [wk EXCEPT ![w] = IdleWorker]
    /\ UNCHANGED <<qtasks, user_queues, rq, done_sets, canc, mark, next_id, ret, impl, varsB, varsAux>>

(* worker.py:186-199 with queue_service.py:498-539 (success) and 555-595     *)
(* (failure): a store command of the report raises (SADD, or the GET or SET  *)
(* of _update_queue_status, whose except branch of lines 289-291 returns     *)
(* False).  report_task_success / report_task_failure swallow the exception  *)
(* and return False; process_image_task logs it and returns False.  sadd     *)
(* tells whether the SADD had been done before the store failed.             *)
report_task_store_fails(w, ok, sadd) ==
    /\ wk[w].pc = "running"
    /\ done_sets' = IF ~sadd THEN done_sets
                    ELSE [done_sets EXCEPT ![wk[w].q] =
                            IF ok THEN [@ EXCEPT !.completed = @ \cup {wk[w].image_id}]
                                  ELSE [@ EXCEPT !.failed = @ \cup {wk[w].image_id}]]
    /\ wk' = [wk EXCEPT ![w] = IdleWorker]
    /\ UNCHANGED <<qdata, qtasks, user_queues, rq, canc, mark, next_id, ret, impl, varsB, varsAux>>

(* --------------------------- A: cancel_queue ---------------------------- *)
(* variant of cancel_queue_get: the owner check is missing *)
cancel_queue_get_NoOwnerCheck(u, q) ==
    /\ impl = "QueueService"
    /\ canc.pc = "idle"
    /\ mark.pc = "idle"
    /\ IF qdata[q] = NoData
       THEN /\ ret' = [op |-> "cancel", ok |-> FALSE]
            /\ UNCHANGED canc
       ELSE /\ canc' = [pc |-> "write", q |-> q, snap |-> qdata[q]]
            /\ UNCHANGED ret
    /\ UNCHANGED <<qdata, qtasks, user_queues, rq, done_sets, wk, mark, next_id, impl, varsB, varsAux>>

(* queue_service.py:339-351: GET the record, check it exists and the owner *)
cancel_queue_get(u, q) ==
    /\ impl = "QueueService"
    /\ canc.pc = "idle"
    /\ mark.pc = "idle"
    /\ IF qdata[q] = NoData \/ qdata[q].user_id # u
       THEN /\ ret' = [op |-> "cancel", ok |-> FALSE]
            /\ UNCHANGED canc
       ELSE /\ canc' = [pc |-> "write", q |-> q, snap |-> qdata[q]]
            /\ UNCHANGED ret
    /\ UNCHANGED <<qdata, qtasks, user_queues, rq, done_sets, wk, mark, next_id, impl, varsB, varsAux>>

(* variant of cancel_queue_set: the RQ queue is not emptied *)
cancel_queue_set_KeepJobs ==
    /\ canc.pc = "write"
    /\ qdata' = [qdata EXCEPT ![canc.q] =
                    [canc.snap EXCEPT !.status = "failed", !.error = "cancelled",
                                      !.cancelled_at = TRUE]]
    /\ ret' = [op |-> "cancel", ok |-> TRUE]
    /\ canc' = IdleCancel
    /\ UNCHANGED <<rq, qtasks, user_queues, done_sets, wk, mark, next_id, impl, varsB, varsAux>>

(* variant of cancel_queue_set: an already cancelled queue is refused *)
cancel_queue_set_RefuseRepeat ==
    /\ canc.pc = "write"
    /\ IF canc.snap.cancelled_at
       THEN /\ ret' = [op |-> "cancel", ok |-> FALSE]
            /\ UNCHANGED <<rq, qdata>>
       ELSE /\ rq' = [rq EXCEPT ![canc.q] = <<>>]
            /\ qdata' = [qdata EXCEPT ![canc.q] =
                            [canc.snap EXCEPT !.status = "failed", !.error = "cancelled",
                                              !.cancelled_at = TRUE]]
            /\ ret' = [op |-> "cancel", ok |-> TRUE]
    /\ canc' = IdleCancel
    /\ UNCHANGED <<qtasks, user_queues, done_sets, wk, mark, next_id, impl, varsB, varsAux>>

(* queue_service.py:353-383: cancel and empty the RQ queue, then SET the copy *)
(* with status failed, the cancellation error and cancelled_at                *)
cancel_queue_set ==
    /\ canc.pc = "write"
    /\ rq' = [rq EXCEPT ![canc.q] = <<>>]
    /\ qdata' = [qdata EXCEPT ![canc.q] =
                    [canc.snap EXCEPT !.status = "failed", !.error = "cancelled",
                                      !.cancelled_at = TRUE]]
    /\ ret' = [op |-> "cancel", ok |-> TRUE]
    /\ canc' = IdleCancel
    /\ UNCHANGED <<qtasks, user_queues, done_sets, wk, mark, next_id, impl, varsB, varsAux>>

(* ---------------- A: mark_unfinished_queues_as_failed ------------------- *)
(* queue_service.py:446-447: KEYS queue:*:data *)
mark_unfinished_keys ==
    /\ impl = "QueueService"
    /\ mark.pc = "idle"
    /\ canc.pc = "idle"
    /\ mark' = [IdleMark EXCEPT !.pc = "scan", !.keys = {q \in AllQIds : qdata[q] # NoData}]
    /\ UNCHANGED <<qdata, qtasks, user_queues, rq, done_sets, wk, canc, next_id, ret, impl, varsB, varsAux>>

(* queue_service.py:449-463: next key, GET, check the status; 481: return *)
mark_unfinished_get ==
    /\ mark.pc = "scan"
    /\ IF mark.keys = {}
       THEN /\ mark' = [IdleMark EXCEPT !.updated_count = mark.updated_count]
       ELSE /\ \E q \in mark.keys :
                 IF qdata[q] # NoData /\ qdata[q].status \in {"waiting", "processing"}
                 THEN mark' = [mark EXCEPT !.pc = "write", !.keys = @ \ {q}, !.q = q,
                                           !.snap = qdata[q]]
                 ELSE mark' = [mark EXCEPT !.keys = @ \ {q}]
    /\ UNCHANGED <<qdata, qtasks, user_queues, rq, done_sets, wk, canc, next_id, ret, impl, varsB, varsAux>>

(* queue_service.py:464-476: SET the copy with status failed and the reason *)
mark_unfinished_set ==
    /\ mark.pc = "write"
    /\ qdata' = [qdata EXCEPT ![mark.q] =
                    [mark.snap EXCEPT !.status = "failed", !.error = "restart"]]
    /\ mark' = [mark EXCEPT !.pc = "scan", !.q = 0, !.snap = NoData,
                            !.updated_count = @ + 1]
    /\ UNCHANGED <<qtasks, user_queues, rq, done_sets, wk, canc, next_id, ret, impl, varsB, varsAux>>

(* main.py:143-172: the worker process exits with its job unfinished (killed, *)
(* crashed); run_worker returns False and monitor_worker (194-244) starts a  *)
(* new process after its wait.  Neither writes to the store: the job is      *)
(* gone from the RQ queue and no report is made for it.                      *)
worker_process_dies(w) ==
    /\ wk[w].pc # "idle"
    /\ wk' = [wk EXCEPT ![w] = IdleWorker]
    /\ UNCHANGED <<qdata, qtasks, user_queues, rq, done_sets, canc, mark, next_id, ret, impl, varsB, varsAux>>

(* ======================= B: RedisQueueService =========================== *)
(* redis_queue_service.py:292-322 _calculate_queue_status *)
RQS_calculate_queue_status(q, total_tasks, completed_count, failed_count, processing_count) ==
    IF completed_count + failed_count >= total_tasks THEN "completed"
    ELSE IF processing_count > 0 THEN "processing"
    ELSE IF Len(rpending[q]) > 0 THEN "waiting"
    ELSE IF completed_count > 0 THEN "completed"
    ELSE "waiting"

(* redis_queue_service.py:201-229: the lengths of the lists                   *)
(* queue:<id>:completed_tasks, :failed_tasks and :processing_tasks.  Nothing  *)
(* in the repository pushes to these lists (create_queue only sets their TTL) *)
RQS_completed_count(q) == 0
RQS_failed_count(q) == 0
RQS_processing_count(q) == 0

(* redis_queue_service.py:190-253 get_queue_status: the stored hash with the *)
(* status replaced by the calculated one; nothing is written                  *)
RQS_get_queue_status(q) ==
    [rinfo[q] EXCEPT !.status =
        RQS_calculate_queue_status(q, rinfo[q].total_tasks, RQS_completed_count(q),
                                   RQS_failed_count(q), RQS_processing_count(q))]

(* redis_queue_service.py:348-354 update_queue_status: HSET status if the key exists *)
RQS_update_queue_status(info, q, status) ==
    IF info[q] # NoInfo THEN [info EXCEPT ![q].status = status] ELSE info

(* redis_queue_service.py:131-188 create_queue: one MULTI/EXEC pipeline *)
RQS_create_queue(u, n, c, ids) ==
    /\ impl = "RedisQueueService"
    /\ next_id \in ids
    /\ rinfo' = [rinfo EXCEPT ![next_id] =
                    [user_id |-> u, status |-> "waiting", total_tasks |-> n,
                     concurrency |-> c]]
    /\ rpending' = [rpending EXCEPT ![next_id] = TaskList(n)]
    /\ next_id' = next_id + 1
    /\ ret' = [op |-> "create", ok |-> TRUE]
    /\ UNCHANGED <<impl, processing_queues, disp, pq_queue_id, sleepers, varsA, varsAux>>

(* redis_queue_service.py:336-346 cancel_queue *)
RQS_cancel_queue(u, q) ==
    /\ impl = "RedisQueueService"
    /\ IF rinfo[q] = NoInfo \/ rinfo[q].user_id # u
       THEN /\ ret' = [op |-> "cancel", ok |-> FALSE]
            /\ UNCHANGED rinfo
       ELSE /\ rinfo' = [rinfo EXCEPT ![q].status = "cancelled"]
            /\ ret' = [op |-> "cancel", ok |-> TRUE]
    /\ UNCHANGED <<impl, next_id, rpending, processing_queues, disp, pq_queue_id, sleepers, varsA, varsAux>>

(* main.py:280-302 the loop body of process_queues up to its last test: a    *)
(* queue that still has unfinished tasks, whose calculated status is waiting *)
(* or processing and that is not in processing_queues gets a start_queue     *)
(* task                                                                      *)
pq_spawns(q) ==
    /\ rinfo[q] # NoInfo
    /\ rinfo[q].status \notin {"completed", "cancelled", "failed"}
    /\ LET current_info == RQS_get_queue_status(q)
       IN  /\ ~(RQS_completed_count(q) + RQS_failed_count(q) >= current_info.total_tasks)
           /\ current_info.status \in {"waiting", "pending", "processing"}
    /\ q \notin processing_queues

(* redis_queue_service.py:356-388 get_all_active_queues: the queues whose     *)
(* stored status is not completed/cancelled/failed                            *)
get_all_active_queues ==
    {q \in AllQIds : rinfo[q] # NoInfo
                     /\ rinfo[q].status \notin {"completed", "cancelled", "failed"}}

(* main.py:262-325 process_queues, one discovery pass.  The for loop has no   *)
(* await: every listed queue is visited before any start_queue task or done   *)
(* callback runs, and the tasks made ready by the previous pass have run      *)
(* before the 5 s sleep ends.  The scan order of the listing is the store's:  *)
(* `last` is the queue visited last, the value the loop variable queue_id     *)
(* keeps.  A queue whose earlier start_queue is still in its loop and whose   *)
(* id has left processing_queues gets another start_queue task.               *)
process_queues_pass(last) ==
    /\ impl = "RedisQueueService"
    /\ last \in get_all_active_queues
    /\ \A q \in AllQIds : disp[q] \notin {"spawned", "except"}
    /\ \A q \in AllQIds : (pq_spawns(q) /\ disp[q] = "sleeping") => sleepers[q] < MaxSleepers
    /\ pq_queue_id' = last
    /\ processing_queues' = processing_queues \cup {q \in AllQIds : pq_spawns(q)}
    /\ disp' = [q \in AllQIds |-> IF pq_spawns(q) THEN "spawned" ELSE disp[q]]
    /\ sleepers' = [q \in AllQIds |->
                       IF pq_spawns(q) /\ disp[q] = "sleeping" THEN sleepers[q] + 1
                       ELSE sleepers[q]]
    /\ UNCHANGED <<impl, next_id, ret, rinfo, rpending, varsA, varsAux>>

(* main.py:302-308: the discovery pass that hands queue q to start_queue *)
process_queues(q) ==
    /\ pq_spawns(q)
    /\ \E last \in AllQIds : process_queues_pass(last)

(* queue_worker.py:96-120 start_queue up to the first pass of process_queue   *)
(* (56-76): status processing is stored, then the top-up loop calls           *)
(* get_next_task(queue_id), which redis_queue_service.py:109 declares without *)
(* a queue id parameter: the call raises TypeError.  With a stored            *)
(* concurrency below 1 the top-up loop is skipped and the loop sleeps.        *)
QW_start_queue(q) ==
    /\ disp[q] = "spawned"
    /\ IF rinfo[q] = NoInfo
       THEN /\ disp' = [disp EXCEPT ![q] = "none"]
            /\ processing_queues' = processing_queues \ {pq_queue_id}
            /\ UNCHANGED rinfo
       ELSE IF rinfo[q].total_tasks = 0
       THEN /\ rinfo' = RQS_update_queue_status(rinfo, q, "completed")
            /\ disp' = [disp EXCEPT ![q] = "none"]
            /\ processing_queues' = processing_queues \ {pq_queue_id}
       ELSE /\ rinfo' = RQS_update_queue_status(rinfo, q, "processing")
            /\ disp' = [disp EXCEPT ![q] =
                            IF 0 < rinfo[q].concurrency THEN "except" ELSE "sleeping"]
            /\ UNCHANGED processing_queues
    /\ UNCHANGED <<impl, next_id, ret, rpending, pq_queue_id, sleepers, varsA, varsAux>>

(* queue_worker.py:141-147 the except branch of start_queue stores status     *)
(* failed; main.py:310-320 the done callback removes the queue id             *)
QW_start_queue_except(q) ==
    /\ disp[q] = "except"
    /\ rinfo' = RQS_update_queue_status(rinfo, q, "failed")
    /\ disp' = [disp EXCEPT ![q] = "none"]
    /\ processing_queues' = processing_queues \ {pq_queue_id}
    /\ UNCHANGED <<impl, next_id, ret, rpending, pq_queue_id, sleepers, varsA, varsAux>>

(* queue_worker.py:96-147 start_queue when the store fails once while the    *)
(* coroutine writes: get_queue_status (line 100) has read the hash, then     *)
(* update_queue_status (redis_queue_service.py:348-354, no try/except)       *)
(* raises at line 111 or 117.  The except branch of lines 141-147 calls      *)
(* update_queue_status(queue_id, "failed") on the store that answers again;  *)
(* main.py:310-320 the done callback removes the queue id.                   *)
QW_start_queue_store_error(q) ==
    /\ disp[q] = "spawned"
    /\ rinfo[q] # NoInfo
    /\ rinfo' = RQS_update_queue_status(rinfo, q, "failed")
    /\ disp' = [disp EXCEPT ![q] = "none"]
    /\ processing_queues' = processing_queues \ {pq_queue_id}
    /\ UNCHANGED <<impl, next_id, ret, rpending, pq_queue_id, sleepers, varsA, varsAux>>

(* ================= service operations: failures, reads, restart ========= *)
(* queue_service.py:52-147 create_generation_queue when one of the store    *)
(* writes of lines 106-133 raises: the except branch (142-147) deletes the  *)
(* data key and the task key and returns None.  The owner's list is the     *)
(* last of these writes, so it has not been written when the branch runs.   *)
create_generation_queue_store_fails(u, c, ids) ==
    /\ impl = "QueueService"
    /\ next_id \in ids
    /\ Len(ActiveQueuesOf(u)) < MAX_ACTIVE_QUEUES_PER_USER
    /\ qdata' = [qdata EXCEPT ![next_id] = NoData]
    /\ qtasks' = [qtasks EXCEPT ![next_id] = -1]
    /\ ret' = [op |-> "create", ok |-> FALSE]
    /\ UNCHANGED <<user_queues, rq, next_id, impl, done_sets, wk, canc, mark, varsB, varsAux>>

(* queue_service.py:52-211 create_generation_queue when the enqueue loop of *)
(* _start_queue_processing (185-199) raises at task k+1 of n (a task dict   *)
(* without image_id raises KeyError in the job_id f-string): the data key,  *)
(* the task key and the owner's list are written, status processing is      *)
(* stored, k jobs are enqueued; the except branch of lines 204-211 stores   *)
(* status failed with the error and swallows the exception, so              *)
(* create_generation_queue returns the queue id.                            *)
create_generation_queue_enqueue_fails(u, n, k, c, ids) ==
    /\ impl = "QueueService"
    /\ next_id \in ids
    /\ k < n
    /\ Len(ActiveQueuesOf(u)) < MAX_ACTIVE_QUEUES_PER_USER
    /\ LET queue_id == next_id
           queue_data == [NoData EXCEPT !.user_id = u, !.status = "waiting",
                                        !.total_tasks = n,
                                        !.concurrency = ClampConcurrency(c)]
           started == UpdatedQueueData(queue_data, "processing", "none", 0, 0)
       IN  /\ qdata' = [qdata EXCEPT ![queue_id] =
                           UpdatedQueueData(started, "failed", "start_failed", 0, 0)]
           /\ qtasks' = [qtasks EXCEPT ![queue_id] = n]
           /\ user_queues' = [user_queues EXCEPT ![u] = Append(@, queue_id)]
           /\ rq' = [rq EXCEPT ![queue_id] = TaskList(k)]
           /\ next_id' = next_id + 1
           /\ ret' = [op |-> "create", ok |-> TRUE]
    /\ UNCHANGED <<impl, done_sets, wk, canc, mark, varsB, varsAux>>

(* queue_service.py:294-320 QueueService.get_queue_status: GET and return    *)
(* the stored record, None when the key is absent; nothing is written        *)
QS_get_queue_status(q) ==
    /\ impl = "QueueService"
    /\ ret' = [op |-> "status", ok |-> qdata[q] # NoData, status |-> qdata[q].status]
    /\ UNCHANGED <<impl, next_id, varsA, varsB, varsAux>>

(* redis_queue_service.py:190-253 RedisQueueService.get_queue_status as a    *)
(* call: returns the hash with the calculated status; nothing is written     *)
RQS_get_queue_status_call(q) ==
    /\ impl = "RedisQueueService"
    /\ ret' = [op |-> "status", ok |-> rinfo[q] # NoInfo,
               status |-> IF rinfo[q] # NoInfo THEN RQS_get_queue_status(q).status
                          ELSE "none"]
    /\ UNCHANGED <<impl, next_id, varsA, varsB, varsAux>>

(* main.py:247-260 startup_event of a restarted app process: the            *)
(* start_queue coroutines and the processing_queues set of the previous     *)
(* process are gone, a new QueueWorker is made and process_queues is        *)
(* scheduled.  The store is neither read nor written.                       *)
startup_event ==
    /\ boot_id' = next_id
    /\ processing_queues' = {}
    /\ disp' = [q \in AllQIds |-> "none"]
    /\ pq_queue_id' = 0
    /\ sleepers' = [q \in AllQIds |-> 0]
    /\ UNCHANGED <<impl, next_id, ret, varsA, rinfo, rpending, mon, est, varsTask, varsConc>>

(* ============ A: create_generation_queue, one store command a step ====== *)
(* queue_service.py:75-80: the quota check on get_user_active_queues; the    *)
(* call returns None at the limit                                            *)
cgq_check(c, u) ==
    /\ impl = "QueueService"
    /\ cgq[c].pc = "idle"
    /\ \A v \in Callers : v < c => cgq[v].pc # "idle"
    /\ IF Len(ActiveQueuesOf(u)) >= MAX_ACTIVE_QUEUES_PER_USER
       THEN /\ ret' = [op |-> "create", ok |-> FALSE]
            /\ UNCHANGED cgq
       ELSE /\ cgq' = [cgq EXCEPT ![c] = [IdleCreate EXCEPT !.pc = "data", !.user_id = u]]
            /\ UNCHANGED ret
    /\ UNCHANGED <<impl, next_id, varsA, varsB, boot_id, mon, est, varsTask, vq, sw>>

(* queue_service.py:83-118: the queue id is made, the record (status         *)
(* waiting) and the task list are SET                                        *)
cgq_set_data(c, n, concurrency) ==
    /\ cgq[c].pc = "data"
    /\ next_id \in AllQIds
    /\ qdata' = [qdata EXCEPT ![next_id] =
                    [NoData EXCEPT !.user_id = cgq[c].user_id, !.status = "waiting",
                                   !.total_tasks = n,
                                   !.concurrency = ClampConcurrency(concurrency)]]
    /\ qtasks' = [qtasks EXCEPT ![next_id] = n]
    /\ cgq' = [cgq EXCEPT ![c].pc = "get", ![c].queue_id = next_id]
    /\ next_id' = next_id + 1
    /\ UNCHANGED <<impl, ret, user_queues, rq, done_sets, wk, canc, mark, varsB,
                   boot_id, mon, est, varsTask, vq, sw>>

(* queue_service.py:121-122: GET user:<id>:queues *)
cgq_get_user_queues(c) ==
    /\ cgq[c].pc = "get"
    /\ cgq' = [cgq EXCEPT ![c].pc = "set", ![c].user_queues = user_queues[cgq[c].user_id]]
    /\ UNCHANGED <<impl, next_id, ret, varsA, varsB, boot_id, mon, est, varsTask, vq, sw>>

(* queue_service.py:124-134: the list read, with the new id appended, is SET *)
cgq_set_user_queues(c) ==
    /\ cgq[c].pc = "set"
    /\ user_queues' = [user_queues EXCEPT ![cgq[c].user_id] =
                           Append(cgq[c].user_queues, cgq[c].queue_id)]
    /\ cgq' = [cgq EXCEPT ![c].pc = "start", ![c].user_queues = <<>>]
    /\ UNCHANGED <<impl, next_id, ret, qdata, qtasks, rq, done_sets, wk, canc, mark, varsB,
                   boot_id, mon, est, varsTask, vq, sw>>

(* queue_service.py:137-141 with _start_queue_processing (150-199): status   *)
(* processing is stored, one RQ job per task is enqueued, the id is returned *)
cgq_start_queue_processing(c) ==
    /\ cgq[c].pc = "start"
    /\ LET queue_id == cgq[c].queue_id
       IN  /\ qdata' = [qdata EXCEPT ![queue_id] =
                           UpdatedQueueData(qdata[queue_id], "processing", "none", 0, 0)]
           /\ rq' = [rq EXCEPT ![queue_id] = TaskList(qtasks[queue_id])]
    /\ cgq' = [cgq EXCEPT ![c] = IdleCreate]
    /\ ret' = [op |-> "create", ok |-> TRUE]
    /\ UNCHANGED <<impl, next_id, qtasks, user_queues, done_sets, wk, canc, mark, varsB,
                   boot_id, mon, est, varsTask, vq, sw>>

(* ================== i2v_api.py: the in-process video queue ============== *)
(* i2v_api.py:99-182 create_video_generation: the row is created, then under *)
(* queue_lock the task is put on task_queue when is_processing is set;       *)
(* otherwise is_processing is set and process_task_and_check_queue is added  *)
(* as a background task                                                      *)
create_video_generation ==
    /\ vq.next_task_id \in VideoTasks
    /\ LET task_id == vq.next_task_id
       IN  vq' = IF vq.is_processing
                 THEN [vq EXCEPT !.task_queue = Append(@, task_id),
                                 !.queued = Append(@, task_id),
                                 !.thread[task_id] = "queued",
                                 !.next_task_id = @ + 1]
                 ELSE [vq EXCEPT !.is_processing = TRUE,
                                 !.thread[task_id] = "scheduled",
                                 !.next_task_id = @ + 1]
    /\ UNCHANGED <<impl, next_id, ret, varsA, varsB, boot_id, mon, est, varsTask, cgq, sw>>

(* i2v_api.py:187-204: the background task or thread begins and calls        *)
(* process_video_generation                                                  *)
process_task_and_check_queue(t) ==
    /\ vq.thread[t] = "scheduled"
    /\ vq' = [vq EXCEPT !.thread[t] = "running", !.started = Append(@, t)]
    /\ UNCHANGED <<impl, next_id, ret, varsA, varsB, boot_id, mon, est, varsTask, cgq, sw>>

(* i2v_api.py:197-204: process_video_generation returns or raises *)
process_video_generation_ends(t, raises) ==
    /\ vq.thread[t] = "running"
    /\ vq' = [vq EXCEPT !.thread[t] = "finally",
                        !.raised = IF raises THEN @ \cup {t} ELSE @]
    /\ UNCHANGED <<impl, next_id, ret, varsA, varsB, boot_id, mon, est, varsTask, cgq, sw>>

(* variant of PTCQ_finally: is_processing is reset also when a next task is started *)
PTCQ_finally_AlwaysResets(t) ==
    /\ vq.thread[t] = "finally"
    /\ vq' = IF vq.task_queue # <<>>
             THEN LET next_task == Head(vq.task_queue)
                  IN  [vq EXCEPT !.task_queue = Tail(@),
                                 !.thread[next_task] = "scheduled",
                                 !.thread[t] = "done",
                                 !.is_processing = FALSE]
             ELSE [vq EXCEPT !.is_processing = FALSE, !.thread[t] = "done"]
    /\ UNCHANGED <<impl, next_id, ret, varsA, varsB, boot_id, mon, est, varsTask, cgq, sw>>

(* i2v_api.py:205-227 the finally block of process_task_and_check_queue,     *)
(* under queue_lock: the head of task_queue is taken and a thread is started *)
(* for it, or is_processing is reset when the queue is empty                 *)
PTCQ_finally(t) ==
    /\ vq.thread[t] = "finally"
    /\ vq' = IF vq.task_queue # <<>>
             THEN LET next_task == Head(vq.task_queue)
                  IN  [vq EXCEPT !.task_queue = Tail(@),
                                 !.thread[next_task] = "scheduled",
                                 !.thread[t] = "done"]
             ELSE [vq EXCEPT !.is_processing = FALSE, !.thread[t] = "done"]
    /\ UNCHANGED <<impl, next_id, ret, varsA, varsB, boot_id, mon, est, varsTask, cgq, sw>>

(* i2v_api.py:207-219 the finally block when update_i2v_generation_status    *)
(* (database.py:407-457, no try/except) raises for the task just taken from  *)
(* task_queue: the exception leaves the with block and ends the thread, no   *)
(* thread is started for the task taken and is_processing stays set          *)
PTCQ_finally_status_raises(t) ==
    /\ vq.thread[t] = "finally"
    /\ vq.task_queue # <<>>
    /\ LET next_task == Head(vq.task_queue)
       IN  vq' = [vq EXCEPT !.task_queue = Tail(@),
                            !.thread[next_task] = "lost",
                            !.thread[t] = "done"]
    /\ UNCHANGED <<impl, next_id, ret, varsA, varsB, boot_id, mon, est, varsTask, cgq, sw>>

(* ================ backend/queue_worker.py: the standalone worker ======== *)
(* queue_worker.py:166-208 monitor_new_queues, one pass while stop_event is  *)
(* clear: a process_queue task is created for every active queue whose       *)
(* stored status is waiting.  The coroutines created by the previous pass    *)
(* have run to their first sleep or to their end before the 5 s sleep ends.  *)
(* No code of the repository writes a worker:trigger:new_queue:* key.        *)
monitor_new_queues ==
    /\ impl = "RedisQueueService"
    /\ ~sw.exited
    /\ ~sw.stop_event
    /\ \A q \in AllQIds : sw.process_queue[q] # "spawned"
    /\ \E q \in get_all_active_queues : rinfo[q].status = "waiting"
    /\ sw' = [sw EXCEPT !.process_queue =
                 [q \in AllQIds |->
                     IF q \in get_all_active_queues /\ rinfo[q].status = "waiting"
                     THEN "spawned" ELSE sw.process_queue[q]]]
    /\ UNCHANGED <<impl, next_id, ret, varsA, varsB, boot_id, mon, est, varsTask, cgq, vq>>

(* queue_worker.py:138-155 the end of process_queue: the status calculated   *)
(* from the counts is stored                                                 *)
SW_final_status(q) ==
    IF rinfo[q] = NoInfo THEN rinfo
    ELSE IF RQS_completed_count(q) + RQS_failed_count(q) >= rinfo[q].total_tasks
    THEN RQS_update_queue_status(rinfo, q, "completed")
    ELSE RQS_update_queue_status(rinfo, q,
             RQS_calculate_queue_status(q, rinfo[q].total_tasks, RQS_completed_count(q),
                                        RQS_failed_count(q), 0))

(* queue_worker.py:77-164 process_queue from its start to its first sleep or *)
(* its return: status processing is stored; with stop_event set the loop is  *)
(* skipped; otherwise the top-up loop calls get_next_task(queue_id), which   *)
(* raises TypeError (redis_queue_service.py:109), and the except branch      *)
(* stores failed; with a stored concurrency below 1 the top-up loop is       *)
(* skipped and the coroutine sleeps 1 s                                      *)
process_queue(q) ==
    /\ ~sw.exited
    /\ sw.process_queue[q] = "spawned"
    /\ IF rinfo[q] = NoInfo
       THEN /\ sw' = [sw EXCEPT !.process_queue[q] = "returned"]
            /\ UNCHANGED rinfo
       ELSE IF rinfo[q].total_tasks = 0
       THEN /\ rinfo' = RQS_update_queue_status(rinfo, q, "completed")
            /\ sw' = [sw EXCEPT !.process_queue[q] = "returned"]
       ELSE IF sw.stop_event
       THEN /\ rinfo' = SW_final_status(q)
            /\ sw' = [sw EXCEPT !.process_queue[q] = "returned"]
       ELSE IF 0 < rinfo[q].concurrency
       THEN /\ rinfo' = RQS_update_queue_status(rinfo, q, "failed")
            /\ sw' = [sw EXCEPT !.process_queue[q] = "returned"]
       ELSE /\ rinfo' = RQS_update_queue_status(rinfo, q, "processing")
            /\ sw' = [sw EXCEPT !.process_queue[q] = "sleeping"]
    /\ UNCHANGED <<impl, next_id, ret, rpending, processing_queues, disp, pq_queue_id,
                   sleepers, varsA, boot_id, mon, est, varsTask, cgq, vq>>

(* queue_worker.py:103-155: the 1 s sleep of a process_queue coroutine ends  *)
(* with stop_event set: the loop is left, no task is awaited (none was       *)
(* started), the final status is stored and the coroutine returns            *)
process_queue_wakes(q) ==
    /\ ~sw.exited
    /\ sw.stop_event
    /\ sw.process_queue[q] = "sleeping"
    /\ rinfo' = SW_final_status(q)
    /\ sw' = [sw EXCEPT !.process_queue[q] = "returned"]
    /\ UNCHANGED <<impl, next_id, ret, rpending, processing_queues, disp, pq_queue_id,
                   sleepers, varsA, boot_id, mon, est, varsTask, cgq, vq>>

(* queue_worker.py:210-213 signal_handler on SIGINT or SIGTERM *)
signal_handler ==
    /\ impl = "RedisQueueService"
    /\ ~sw.exited
    /\ ~sw.stop_event
    /\ sw' = [sw EXCEPT !.stop_event = TRUE]
    /\ UNCHANGED <<impl, next_id, ret, varsA, varsB, boot_id, mon, est, varsTask, cgq, vq>>

(* queue_worker.py:171, 231-247: the sleep of monitor_new_queues ends with   *)
(* stop_event set, the loop and main return, and asyncio.run cancels every   *)
(* coroutine that has not returned before the process exits                  *)
main_returns ==
    /\ ~sw.exited
    /\ sw.stop_event
    /\ \A q \in AllQIds : sw.process_queue[q] # "spawned"
    /\ sw' = [sw EXCEPT !.exited = TRUE,
                        !.process_queue =
                            [q \in AllQIds |-> IF sw.process_queue[q] = "sleeping"
                                               THEN "cancelled" ELSE sw.process_queue[q]]]
    /\ UNCHANGED <<impl, next_id, ret, varsA, varsB, boot_id, mon, est, varsTask, cgq, vq>>

(* ======================== active-queue listings ========================= *)
(* queue_service.py:87 created_at: queue ids are issued in creation order,  *)
(* so the id stands for the creation time                                   *)
created_at(q) == q

RECURSIVE InsertNewestFirst(_, _)
InsertNewestFirst(x, sorted) ==
    IF sorted = <<>> THEN <<x>>
    ELSE IF created_at(x) > created_at(Head(sorted)) THEN <<x>> \o sorted
    ELSE <<Head(sorted)>> \o InsertNewestFirst(x, Tail(sorted))

(* queue_service.py:421-423: list.sort(key=created_at, reverse=True) *)
RECURSIVE SortNewestFirst(_)
SortNewestFirst(seq) ==
    IF seq = <<>> THEN <<>>
    ELSE InsertNewestFirst(seq[Len(seq)], SortNewestFirst(SubSeq(seq, 1, Len(seq) - 1)))

(* queue_service.py:390-430 QueueService.get_user_active_queues: the ids of *)
(* the records returned, in the order returned                              *)
QS_get_user_active_queues(u) == SortNewestFirst(ActiveQueuesOf(u))

(* redis_queue_service.py:324-334 RedisQueueService.get_user_active_queues: *)
(* the ids of the hashes returned (SCAN order is not specified)             *)
RQS_get_user_active_queues(u) ==
    {q \in AllQIds : rinfo[q] # NoInfo /\ rinfo[q].user_id = u
                                       /\ rinfo[q].status # "completed"}

(* ========================= main.monitor_worker ========================== *)
(* variant of RetryExhausted: the retry limit is never reached *)
RetryExhausted_Never(retry_count) == retry_count < 0

(* main.py:231 *)
RetryExhausted(retry_count) == retry_count > MAX_RETRIES

(* variant of BackoffSleepTime: the wait does not grow with retry_count *)
BackoffSleepTime_Flat(backoff_time, retry_count) ==
    Min(backoff_time * BACKOFF_BASE, BACKOFF_CAP)

(* variant of BackoffSleepTime: no cap *)
BackoffSleepTime_Uncapped(backoff_time, retry_count) ==
    backoff_time * (BACKOFF_BASE ^ (retry_count - 1))

(* main.py:239-240: exponential backoff with its cap *)
BackoffSleepTime(backoff_time, retry_count) ==
    Min(backoff_time * (BACKOFF_BASE ^ (retry_count - 1)), BACKOFF_CAP)

(* main.py:200-218: the head of the loop up to the start of the worker *)
monitor_worker_start ==
    /\ mon.pc = "loop"
    /\ LET rapid == mon.since_start < RAPID_WINDOW
           crf == IF rapid THEN mon.consecutive_rapid_failures + 1 ELSE 0
       IN  /\ rapid => mon.consecutive_rapid_failures < MaxRapid
           /\ mon' = [mon EXCEPT !.pc = "run",
                                 !.consecutive_rapid_failures = crf,
                                 !.extra_wait = IF rapid /\ crf > RAPID_LIMIT
                                                THEN crf * EXTRA_WAIT_STEP ELSE 0,
                                 !.since_start = 0]
    /\ UNCHANGED <<impl, next_id, ret, varsA, varsB, boot_id, est, varsTask, varsConc>>

(* main.py:221-244: run_worker returns after d seconds, then the rest of   *)
(* the loop body                                                           *)
monitor_worker_exit(success, d) ==
    /\ mon.pc = "run"
    /\ IF success
       THEN mon' = [mon EXCEPT !.pc = "loop", !.retry_count = 0,
                               !.backoff_time = INITIAL_BACKOFF,
                               !.since_start = Min(RAPID_WINDOW, d),
                               !.sleep_time = 0, !.slept = "none", !.streak = 0,
                               !.rapid_failed = 0]
       ELSE LET retry_count == mon.retry_count + 1
                streak == Min(MaxStreak, mon.streak + 1)
                rapid_failed == IF d < RAPID_WINDOW
                                THEN Min(MaxStreak, mon.rapid_failed + 1) ELSE 0
            IN  IF RetryExhausted(retry_count)
                THEN mon' = [mon EXCEPT !.pc = "loop", !.retry_count = 0,
                                        !.since_start = Min(RAPID_WINDOW, d + LONG_WAIT),
                                        !.sleep_time = LONG_WAIT, !.slept = "long",
                                        !.streak = streak,
                                        !.rapid_failed = rapid_failed]
                ELSE LET sleep_time == BackoffSleepTime(mon.backoff_time, retry_count)
                     IN  mon' = [mon EXCEPT !.pc = "loop", !.retry_count = retry_count,
                                            !.since_start = Min(RAPID_WINDOW, d + sleep_time),
                                            !.sleep_time = sleep_time, !.slept = "backoff",
                                            !.streak = streak,
                                            !.rapid_failed = rapid_failed]
    /\ UNCHANGED <<impl, next_id, ret, varsA, varsB, boot_id, est, varsTask, varsConc>>

(* ==================== image_to_video.TimeEstimator ====================== *)
RECURSIVE GCD(_, _)
GCD(a, b) == IF b = 0 THEN a ELSE GCD(b, a % b)

RECURSIVE DenProduct(_)
DenProduct(step_times) ==
    IF step_times = <<>> THEN 1 ELSE Head(step_times).den * DenProduct(Tail(step_times))

RECURSIVE NumSum(_, _)
NumSum(step_times, P) ==
    IF step_times = <<>> THEN 0
    ELSE Head(step_times).num * (P \div Head(step_times).den) + NumSum(Tail(step_times), P)

(* image_to_video.py:56-61, 97-99: statistics.mean(step_times) *            *)
(* remaining_steps as a fraction <<numerator, denominator>> in lowest terms; *)
(* 0 when the window is empty                                                *)
EstimatedRemaining(step_times, remaining_steps) ==
    IF Len(step_times) = 0 THEN <<0, 1>>
    ELSE LET P == DenProduct(step_times)
             N == NumSum(step_times, P) * remaining_steps
             D == P * Len(step_times)
             g == GCD(N, D)
         IN  IF N = 0 THEN <<0, 1>> ELSE <<N \div g, D \div g>>

(* variant of LastN: the oldest n entries are kept *)
LastN_KeepsOldest(seq, n) == IF Len(seq) > n THEN SubSeq(seq, 1, n) ELSE seq

(* image_to_video.py:86-87: step_times[-10:] *)
LastN(seq, n) == IF Len(seq) > n THEN SubSeq(seq, Len(seq) - n + 1, Len(seq)) ELSE seq

(* image_to_video.py:226-227: an estimator is made for a generation of     *)
(* total_steps steps (before any progress event is read)                   *)
TE_init(total_steps) ==
    /\ est.calls = 0
    /\ est' = NewEstimator(total_steps)
    /\ UNCHANGED <<impl, next_id, ret, varsA, varsB, boot_id, mon, varsTask, varsConc>>

(* variant of TE_update: a repeated step index is recorded like a new step *)
TE_update_CountsDuplicates(current_step, tick) ==
    /\ est.calls < MaxUpdates
    /\ est.now + tick <= MaxClock
    /\ current_step <= est.total_steps
    /\ LET current_time == est.now + tick
           step_time == current_time - est.last_step_time
           steps_taken == current_step - est.last_step
           extended ==
               IF steps_taken > 1
               THEN est.step_times \o
                    [i \in 1..steps_taken |-> [num |-> step_time, den |-> steps_taken]]
               ELSE Append(est.step_times, [num |-> step_time, den |-> 1])
           step_times == LastN(extended, WINDOW_SIZE)
       IN  est' = [est EXCEPT !.now = current_time, !.calls = @ + 1,
                              !.step_times = step_times,
                              !.last_step_time = current_time,
                              !.last_step = current_step,
                              !.result = [remaining |->
                                             EstimatedRemaining(step_times,
                                                 est.total_steps - current_step),
                                          elapsed |-> current_time]]
    /\ UNCHANGED <<impl, next_id, ret, varsA, varsB, boot_id, mon, varsTask, varsConc>>

(* image_to_video.py:39-112 TimeEstimator.update(current_step), called tick *)
(* seconds after the previous call                                          *)
TE_update(current_step, tick) ==
    /\ est.calls < MaxUpdates
    /\ est.now + tick <= MaxClock
    /\ current_step <= est.total_steps
    /\ LET current_time == est.now + tick
       IN  IF current_step = est.last_step
           THEN est' = [est EXCEPT !.now = current_time, !.calls = @ + 1,
                                   !.result = [remaining |->
                                                  EstimatedRemaining(est.step_times,
                                                      est.total_steps - current_step),
                                               elapsed |-> current_time]]
           ELSE LET step_time == current_time - est.last_step_time
                    steps_taken == current_step - est.last_step
                    extended ==
                        IF steps_taken > 1
                        THEN est.step_times \o
                             [i \in 1..steps_taken |-> [num |-> step_time, den |-> steps_taken]]
                        ELSE Append(est.step_times, [num |-> step_time, den |-> 1])
                    step_times == LastN(extended, WINDOW_SIZE)
                IN  est' = [est EXCEPT !.now = current_time, !.calls = @ + 1,
                                       !.step_times = step_times,
                                       !.last_step_time = current_time,
                                       !.last_step = current_step,
                                       !.result = [remaining |->
                                                      EstimatedRemaining(step_times,
                                                          est.total_steps - current_step),
                                                   elapsed |-> current_time]]
    /\ UNCHANGED <<impl, next_id, ret, varsA, varsB, boot_id, mon, varsTask, varsConc>>

(* ================= image-to-video: generate_video events ================ *)
(* image_to_video.py:316  percentage = int((value / max_val) * 100) *)
Percentage(value, max_val) == (value * FULL) \div max_val

(* image_to_video.py:362 percent_complete = round(inference_progress * 0.7 + *)
(* video_progress * 0.3, 1), in tenths of a percent                          *)
PercentComplete(inference_progress, video_progress) ==
    inference_progress * INFERENCE_WEIGHT + video_progress * COMBINE_WEIGHT

(* i2v_api.py:458-467 total_progress: int(70 + video_progress * 0.3) once    *)
(* video_combine is set, int(inference_progress * 0.7) before                *)
TotalProgress(status) ==
    IF status.video_combine
    THEN (COMBINE_BASE * 10 + status.video_progress * COMBINE_WEIGHT) \div 10
    ELSE (status.inference_progress * INFERENCE_WEIGHT) \div 10

(* i2v_api.py:403-412: process_video_generation starts, writes status        *)
(* initializing with progress 0 and opens the event stream                   *)
PVG_start ==
    /\ i2v.pc = "idle"
    /\ i2v' = [pc |-> "streaming", status |-> NewI2VStatus,
               row |-> [i2v.row EXCEPT !.status = "initializing", !.progress = 0]]
    /\ UNCHANGED <<impl, next_id, ret, varsA, varsB, boot_id, mon, est, bt, varsConc>>

(* image_to_video.py:294-310 an executing event sets the flag of its node;   *)
(* i2v_api.py:442-445 computes the node columns and writes nothing           *)
I2V_executing(node) ==
    /\ i2v.pc = "streaming"
    /\ i2v' = [i2v EXCEPT !.status =
                  IF node = "27" THEN [@ EXCEPT !.inference = TRUE]
                  ELSE IF node = "30" THEN [@ EXCEPT !.video_combine = TRUE]
                  ELSE @]
    /\ UNCHANGED <<impl, next_id, ret, varsA, varsB, boot_id, mon, est, bt, varsConc>>

(* image_to_video.py:312-363 a progress event of node 27 or 30 sets that     *)
(* stage's percentage and percent_complete; i2v_api.py:448-488 writes the    *)
(* row: status is the node status, progress is total_progress                *)
I2V_progress(node, value) ==
    /\ i2v.pc = "streaming"
    /\ LET percentage == Percentage(value, MaxProgressValue)
           st1 == IF node = "27" THEN [i2v.status EXCEPT !.inference_progress = percentage]
                  ELSE IF node = "30" THEN [i2v.status EXCEPT !.video_progress = percentage]
                  ELSE i2v.status
           st2 == [st1 EXCEPT !.percent_complete =
                      PercentComplete(st1.inference_progress, st1.video_progress)]
       IN  i2v' = [i2v EXCEPT !.status = st2,
                              !.row = [@ EXCEPT !.status = IF st2.video_combine
                                                           THEN "combining_video"
                                                           ELSE "inference",
                                                !.progress = TotalProgress(st2)]]
    /\ UNCHANGED <<impl, next_id, ret, varsA, varsB, boot_id, mon, est, bt, varsConc>>

(* image_to_video.py:376-393 execution_success: completed, 100.0 percent;    *)
(* i2v_api.py has no branch for this event type and writes nothing           *)
I2V_execution_success ==
    /\ i2v.pc = "streaming"
    /\ ~i2v.status.completed
    /\ i2v' = [i2v EXCEPT !.status.completed = TRUE,
                          !.status.percent_complete = FULL * 10]
    /\ UNCHANGED <<impl, next_id, ret, varsA, varsB, boot_id, mon, est, bt, varsConc>>

(* i2v_api.py:490-510 an event of type complete: status completed, progress  *)
(* 100; the video path is written when the event or the status carries one   *)
I2V_complete(video_path) ==
    /\ i2v.pc = "streaming"
    /\ i2v' = [i2v EXCEPT !.row =
                  [@ EXCEPT !.status = "completed", !.progress = FULL,
                            !.video_path = IF video_path # "none" THEN video_path ELSE @]]
    /\ UNCHANGED <<impl, next_id, ret, varsA, varsB, boot_id, mon, est, bt, varsConc>>

(* image_to_video.py:438-446 a data line that is not JSON: an error event is *)
(* yielded and the stream goes on; i2v_api.py:512-524 writes status failed   *)
(* with the message and stays in the loop                                    *)
I2V_bad_line ==
    /\ i2v.pc = "streaming"
    /\ i2v' = [i2v EXCEPT !.row = [@ EXCEPT !.status = "failed",
                                            !.error_message = "json_error"]]
    /\ UNCHANGED <<impl, next_id, ret, varsA, varsB, boot_id, mon, est, bt, varsConc>>

(* image_to_video.py:448-456 the connection breaks: an error event is        *)
(* yielded and the generator ends; i2v_api.py:512-528 writes status failed   *)
I2V_request_exception ==
    /\ i2v.pc = "streaming"
    /\ i2v' = [i2v EXCEPT !.pc = "done",
                          !.row = [@ EXCEPT !.status = "failed",
                                            !.error_message = "request_error"]]
    /\ UNCHANGED <<impl, next_id, ret, varsA, varsB, boot_id, mon, est, bt, varsConc>>

(* image_to_video.py:279 the stream ends; i2v_api.py:526-528 nothing is written *)
I2V_stream_end ==
    /\ i2v.pc = "streaming"
    /\ i2v' = [i2v EXCEPT !.pc = "done"]
    /\ UNCHANGED <<impl, next_id, ret, varsA, varsB, boot_id, mon, est, bt, varsConc>>

(* ====================== batch generation worker ========================= *)
(* redis_queue_service.py:87-107 update_task_status: HSET status and the     *)
(* additional fields; the other fields of the hash stay as they are          *)
(* batch_generation_worker.py:67-85 process_batch_task: status processing    *)
(* with progress 0, then one process_single_image task per image, each with  *)
(* MaxSeeds seeds; pending[i] is the number of seeds image i has left        *)
BGW_process_batch_task(n) ==
    /\ bt.pc = "idle"
    /\ bt' = [bt EXCEPT !.pc = "gather", !.status = "processing",
                        !.progress = <<0, 1>>, !.total_images = n * MaxSeeds,
                        !.pending = [i \in 1..n |-> MaxSeeds]]
    /\ UNCHANGED <<impl, next_id, ret, varsA, varsB, boot_id, mon, est, i2v, varsConc>>

(* batch_generation_worker.py:15-64 process_single_image of image i, one     *)
(* step of its seed loop.  "generated": the image is made, completed_images  *)
(* is raised and status processing is written with the progress;             *)
(* "generate_failed": the inner except logs and goes on to the next seed,    *)
(* nothing is written; "bad_image_data": reading the image fields (lines     *)
(* 20-22) raises before the first seed, the outer except writes status       *)
(* failed with the error and progress 0                                      *)
BGW_process_single_image(i, outcome) ==
    /\ bt.pc = "gather"
    /\ i \in DOMAIN bt.pending
    /\ bt.pending[i] > 0
    /\ outcome = "bad_image_data" => bt.pending[i] = MaxSeeds
    /\ bt' = IF outcome = "generated"
             THEN [bt EXCEPT !.pending[i] = @ - 1,
                             !.completed_images = @ + 1,
                             !.status = "processing",
                             !.progress = <<(bt.completed_images + 1) * FULL,
                                            bt.total_images>>]
             ELSE IF outcome = "bad_image_data"
             THEN [bt EXCEPT !.pending[i] = 0,
                             !.status = "failed",
                             !.error = "image_failed",
                             !.progress = <<0, 1>>]
             ELSE [bt EXCEPT !.pending[i] = @ - 1]
    /\ UNCHANGED <<impl, next_id, ret, varsA, varsB, boot_id, mon, est, i2v, varsConc>>

(* batch_generation_worker.py:84-92: gather has returned, status completed   *)
(* with progress 100 is written                                              *)
BGW_process_batch_task_done ==
    /\ bt.pc = "gather"
    /\ \A i \in DOMAIN bt.pending : bt.pending[i] = 0
    /\ bt' = [bt EXCEPT !.pc = "done", !.status = "completed",
                        !.progress = <<FULL, 1>>]
    /\ UNCHANGED <<impl, next_id, ret, varsA, varsB, boot_id, mon, est, i2v, varsConc>>

(* ================== process_image_task progress writes ================== *)
(* worker.py:170  progress = min(10 + (variant_idx + 1) * 30, 90) *)
VariantProgress(variant_idx) ==
    Min(FIRST_PROGRESS + (variant_idx + 1) * VARIANT_STEP, VARIANT_CAP)

(* worker.py:80-187: the progress values process_image_task writes with      *)
(* status processing, in order: 0, 10, one per variant; then 100 with the    *)
(* terminal status                                                           *)
PIT_progress_writes ==
    <<0, FIRST_PROGRESS>> \o [k \in 1..VARIANTS |-> VariantProgress(k - 1)]

(* --------------------------- specifications ----------------------------- *)
CreateA == \E u \in Users, n \in TaskCounts, c \in ConcurrencyInputs :
              create_generation_queue(u, n, c, RaceQIds)
DequeueA == \E w \in Workers, q \in AllQIds : WorkerDequeue(w, q)
ReportA == \E w \in Workers, ok \in BOOLEAN : report_task(w, ok)
UpdateSetA == \E w \in Workers : update_queue_status_set(w)
CancelGetA == \E u \in Users, q \in RaceQIds : cancel_queue_get(u, q)

NextA ==
    \/ CreateA
    \/ DequeueA
    \/ ReportA
    \/ UpdateSetA
    \/ CancelGetA
    \/ cancel_queue_set
    \/ mark_unfinished_keys
    \/ mark_unfinished_get
    \/ mark_unfinished_set

CreateB == \E u \in Users, n \in TaskCounts, c \in ConcurrencyInputs :
              RQS_create_queue(u, n, c, RaceQIds)
CancelB == \E u \in Users, q \in RaceQIds : RQS_cancel_queue(u, q)
DiscoverB == \E last \in AllQIds : process_queues_pass(last)
StartB == \E q \in AllQIds : QW_start_queue(q)
ExceptB == \E q \in AllQIds : QW_start_queue_except(q)

NextB ==
    \/ CreateB
    \/ CancelB
    \/ DiscoverB
    \/ StartB
    \/ ExceptB

Next == NextA \/ NextB

Spec == Init /\ [][Next]_vars

(* several queues of QueueService, one task each *)
InitQuota == Init /\ impl = "QueueService"
CreateQuota == \E u \in Users, n \in QuotaTaskCounts, c \in QuotaConcurrencyInputs :
                  create_generation_queue(u, n, c, AllQIds)
DequeueQuota == \E w \in QuotaWorkers, q \in AllQIds : WorkerDequeue(w, q)
NextQuota ==
    \/ CreateQuota
    \/ DequeueQuota
    \/ ReportA
    \/ UpdateSetA

SpecQuota == InitQuota /\ [][NextQuota]_vars

(* one queue id, both services, with failing creates, status reads and restarts *)
CreateStoreFailsA == \E u \in Users, c \in ConcurrencyInputs :
                        create_generation_queue_store_fails(u, c, RaceQIds)
CreateEnqueueFailsA == \E u \in Users, n \in TaskCounts, k \in TaskCounts, c \in ConcurrencyInputs :
                          create_generation_queue_enqueue_fails(u, n, k, c, RaceQIds)
GetStatusA == \E q \in RaceQIds : QS_get_queue_status(q)
GetStatusB == \E q \in RaceQIds : RQS_get_queue_status_call(q)
StoreErrorB == \E q \in AllQIds : QW_start_queue_store_error(q)
NextOps ==
    \/ CreateA
    \/ CreateStoreFailsA
    \/ CreateEnqueueFailsA
    \/ DequeueA
    \/ ReportA
    \/ UpdateSetA
    \/ GetStatusA
    \/ CreateB
    \/ CancelB
    \/ DiscoverB
    \/ StartB
    \/ ExceptB
    \/ StoreErrorB
    \/ GetStatusB
    \/ startup_event
SpecOps == Init /\ [][NextOps]_vars

(* the supervisor loop of main.py alone *)
MonitorStart == monitor_worker_start
MonitorExit == \E success \in BOOLEAN, d \in RunDurations : monitor_worker_exit(success, d)
NextMonitor == MonitorStart \/ MonitorExit
SpecMonitor == Init /\ [][NextMonitor]_vars

(* one TimeEstimator object and the progress events it is given *)
UpdateEstimator == \E current_step \in 0..MaxSteps, tick \in Ticks : TE_update(current_step, tick)
NewEstimatorCall == \E total_steps \in TotalSteps : TE_init(total_steps)
NextEstimator == NewEstimatorCall \/ UpdateEstimator
SpecEstimator == Init /\ [][NextEstimator]_vars

(* the specifications below follow QueueService only *)
InitTasks == Init /\ impl = "QueueService"

(* one queue of QueueService whose workers may die, under fair scheduling:   *)
(* a free RQ worker takes a waiting job, a running generation ends, a        *)
(* started _update_queue_status call finishes, and a started                 *)
(* mark_unfinished_queues_as_failed call runs to its end                     *)
WorkerDies == \E w \in Workers : worker_process_dies(w)
MarkUnfinished == mark_unfinished_keys \/ mark_unfinished_get \/ mark_unfinished_set
NextCrash ==
    \/ CreateA
    \/ DequeueA
    \/ ReportA
    \/ UpdateSetA
    \/ WorkerDies
    \/ mark_unfinished_keys
    \/ mark_unfinished_get
    \/ mark_unfinished_set
FairCrash ==
    /\ WF_vars(DequeueA)
    /\ WF_vars(ReportA)
    /\ WF_vars(UpdateSetA)
    /\ WF_vars(MarkUnfinished)
SpecCrash == InitTasks /\ [][NextCrash]_vars /\ FairCrash

(* one queue of QueueService that is never cancelled, under fair scheduling: *)
(* a free RQ worker takes a waiting job, every process_image_task run ends   *)
(* and reports, and a started _update_queue_status call finishes             *)
NextLiveA ==
    \/ CreateA
    \/ DequeueA
    \/ ReportA
    \/ UpdateSetA
FairLiveA ==
    /\ WF_vars(DequeueA)
    /\ WF_vars(ReportA)
    /\ WF_vars(UpdateSetA)
SpecLiveA == InitTasks /\ [][NextLiveA]_vars /\ FairLiveA

(* one queue of RedisQueueService with a store that never fails, under fair  *)
(* scheduling: process_queues                                                *)
(* makes a discovery pass every 5 s (main.py:267-325) and a spawned          *)
(* start_queue coroutine runs on                                             *)
InitLiveB == Init /\ impl = "RedisQueueService"
NextLiveB ==
    \/ CreateB
    \/ CancelB
    \/ DiscoverB
    \/ StartB
    \/ ExceptB
    \/ GetStatusB
FairLiveB ==
    /\ WF_vars(DiscoverB)
    /\ WF_vars(StartB)
    /\ WF_vars(ExceptB)
SpecLiveB == InitLiveB /\ [][NextLiveB]_vars /\ FairLiveB

(* two queues of RedisQueueService under the supervisor loop of main.py *)
DispQIds == {1, 2}
DispConcurrencyInputs == {0, 2}
CreateDisp == \E u \in Users, n \in TaskCounts, c \in DispConcurrencyInputs :
                 RQS_create_queue(u, n, c, DispQIds)
CancelDisp == \E u \in Users, q \in DispQIds : RQS_cancel_queue(u, q)
NextDisp ==
    \/ CreateDisp
    \/ CancelDisp
    \/ DiscoverB
    \/ StartB
    \/ ExceptB
SpecDisp == InitLiveB /\ [][NextDisp]_vars

(* concurrent create_generation_queue calls of one owner *)
CreateOwners == {1}
CheckCreate == \E c \in Callers, u \in CreateOwners : cgq_check(c, u)
SetDataCreate == \E c \in Callers, n \in QuotaTaskCounts, k \in QuotaConcurrencyInputs :
                    cgq_set_data(c, n, k)
GetListCreate == \E c \in Callers : cgq_get_user_queues(c)
SetListCreate == \E c \in Callers : cgq_set_user_queues(c)
StartCreate == \E c \in Callers : cgq_start_queue_processing(c)
NextCreate ==
    \/ CheckCreate
    \/ SetDataCreate
    \/ GetListCreate
    \/ SetListCreate
    \/ StartCreate
SpecCreate == InitTasks /\ [][NextCreate]_vars

(* the in-process video queue of i2v_api.py; under fair scheduling every     *)
(* started thread runs, every call of process_video_generation ends          *)
(* (C38's proviso) and the finally block gets queue_lock                     *)
StartVideo == \E t \in VideoTasks : process_task_and_check_queue(t)
EndVideo == \E t \in VideoTasks, raises \in BOOLEAN : process_video_generation_ends(t, raises)
FinallyVideo == \E t \in VideoTasks : PTCQ_finally(t)
FinallyRaisesVideo == \E t \in VideoTasks : PTCQ_finally_status_raises(t)
NextVideoQueue ==
    \/ create_video_generation
    \/ StartVideo
    \/ EndVideo
    \/ FinallyVideo
    \/ FinallyRaisesVideo
SpecVideoQueue == InitTasks /\ [][NextVideoQueue]_vars
FairVideoQueue ==
    /\ WF_vars(StartVideo)
    /\ WF_vars(EndVideo)
    /\ WF_vars(FinallyVideo)
SpecVideoQueueFair == InitTasks /\ [][NextVideoQueue]_vars /\ FairVideoQueue

(* two queues of RedisQueueService under the standalone worker process *)
ProcessQueueStop == \E q \in AllQIds : process_queue(q)
WakeStop == \E q \in AllQIds : process_queue_wakes(q)
NextStop ==
    \/ CreateDisp
    \/ CancelDisp
    \/ monitor_new_queues
    \/ ProcessQueueStop
    \/ WakeStop
    \/ signal_handler
    \/ main_returns
SpecStop == InitLiveB /\ [][NextStop]_vars

(* one queue of QueueService whose workers report while the store may fail *)
ReportStoreFailsA == \E w \in Workers, ok \in BOOLEAN, sadd \in BOOLEAN :
                        report_task_store_fails(w, ok, sadd)
NextReport ==
    \/ CreateA
    \/ DequeueA
    \/ ReportA
    \/ UpdateSetA
    \/ ReportStoreFailsA
SpecReport == InitTasks /\ [][NextReport]_vars

(* one image-to-video run; one batch generation task *)
ProgressNodes == {"27", "30"}
ExecutingNodes == {"18", "27", "30"}
ImageOutcomes == {"generated", "generate_failed", "bad_image_data"}
ExecutingEvent == \E node \in ExecutingNodes : I2V_executing(node)
ProgressEvent == \E node \in ProgressNodes, value \in 0..MaxProgressValue :
                    I2V_progress(node, value)
CompleteEvent == \E video_path \in {"none", "video"} : I2V_complete(video_path)
BatchStart == \E n \in 1..MaxImages : BGW_process_batch_task(n)
BatchImage == \E i \in 1..MaxImages, outcome \in ImageOutcomes :
                 BGW_process_single_image(i, outcome)
NextI2V ==
    \/ PVG_start
    \/ ExecutingEvent
    \/ ProgressEvent
    \/ I2V_execution_success
    \/ CompleteEvent
    \/ I2V_bad_line
    \/ I2V_request_exception
    \/ I2V_stream_end
SpecI2V == InitTasks /\ [][NextI2V]_vars

NextBatch ==
    \/ BatchStart
    \/ BatchImage
    \/ BGW_process_batch_task_done
SpecBatch == InitTasks /\ [][NextBatch]_vars

(* ============================== claims ================================== *)
(* tasks of queue q taken by a worker and not yet written back *)
InFlight(q) == {w \in Workers : wk[w].pc # "idle" /\ wk[w].q = q}
(* tasks of queue q whose generation is running *)
Running(q) == {w \in Workers : wk[w].pc = "running" /\ wk[w].q = q}
(* number of report_task_success / report_task_failure calls made for q *)
Reported(q) == Cardinality(done_sets[q].completed) + Cardinality(done_sets[q].failed)
(* the value cancel_queue leaves in the record: failed, with cancelled_at *)
CancelledA(q) == qdata[q].status = "failed" /\ qdata[q].cancelled_at
NeverCancelledOrMarked(q) ==
    qdata[q].error = "none" /\ canc.pc = "idle" /\ mark.pc = "idle"

(* C1: in every reachable state of a queue record, under any interleaving of *)
(* report_task_success, report_task_failure, cancel_queue and                *)
(* mark_unfinished_queues_as_failed, total_completed + total_failed is at    *)
(* most total_tasks (and the counts are the lengths of the two lists).       *)
C1_CountsWithinTotal ==
    \A q \in AllQIds :
        /\ qdata[q] # NoData =>
              /\ qdata[q].total_completed + qdata[q].total_failed <= qdata[q].total_tasks
              /\ qdata[q].total_completed = Len(qdata[q].completed_tasks)
              /\ qdata[q].total_failed = Len(qdata[q].failed_tasks)
        /\ rinfo[q] # NoInfo =>
              RQS_completed_count(q) + RQS_failed_count(q) <= rinfo[q].total_tasks

(* C1 witness: a queue of at least two tasks whose counts have reached the  *)
(* total after a cancel_queue or mark_unfinished_queues_as_failed write     *)
C1_Witness ==
    \E q \in AllQIds :
        /\ qdata[q] # NoData
        /\ qdata[q].total_tasks >= 2
        /\ qdata[q].total_completed >= 1
        /\ qdata[q].total_failed >= 1
        /\ qdata[q].total_completed + qdata[q].total_failed = qdata[q].total_tasks
        /\ qdata[q].error # "none"

(* C2: for every queue with configured concurrency c, at no point are more  *)
(* than c of its tasks being executed at the same time.                     *)
C2_ConcurrencyBound ==
    \A q \in AllQIds :
        qdata[q] # NoData => Cardinality(Running(q)) <= qdata[q].concurrency

(* C3: when two or more workers report outcomes for the same queue          *)
(* concurrently, no update is lost: once all reports have returned,         *)
(* total_completed + total_failed equals the number of reports made and     *)
(* every reported task is in completed_tasks or failed_tasks.               *)
C3_NoLostUpdate ==
    \A q \in AllQIds :
        (qdata[q] # NoData /\ InFlight(q) = {} /\ NeverCancelledOrMarked(q)) =>
            /\ qdata[q].total_completed + qdata[q].total_failed = Reported(q)
            /\ \A i \in done_sets[q].completed :
                   \E k \in 1..Len(qdata[q].completed_tasks) : qdata[q].completed_tasks[k] = i
            /\ \A i \in done_sets[q].failed :
                   \E k \in 1..Len(qdata[q].failed_tasks) : qdata[q].failed_tasks[k] = i

(* C4: when a queue has drained (every task reported, no cancellation), its *)
(* final status is failed iff the failed count equals total_tasks;          *)
(* otherwise it is completed and the failed count is the number of tasks    *)
(* that failed.                                                             *)
C4_DrainedStatus ==
    \A q \in AllQIds :
        (/\ qdata[q] # NoData
         /\ rq[q] = <<>>
         /\ InFlight(q) = {}
         /\ Reported(q) = qdata[q].total_tasks
         /\ NeverCancelledOrMarked(q)) =>
            /\ qdata[q].status \in {"failed", "completed"}
            /\ qdata[q].status = "failed" <=>
                  Cardinality(done_sets[q].failed) = qdata[q].total_tasks
            /\ qdata[q].total_failed = Cardinality(done_sets[q].failed)

(* C5: after creation, a queue's status is terminal (completed, failed or   *)
(* cancelled) iff none of its tasks is pending or being processed.          *)
C5_TerminalIffNoWork ==
    \A q \in AllQIds :
        qdata[q] # NoData =>
            (qdata[q].status \in {"completed", "failed", "cancelled"}
                <=> (rq[q] = <<>> /\ InFlight(q) = {}))

(* C6: create_generation_queue for an owner who already has 5 queues in     *)
(* status waiting or processing returns no queue id and writes nothing: no  *)
(* queue data key, no task key, no change to the owner's list, no job.      *)
C6_QuotaRejectWritesNothing ==
    [][\A u \in Users :
          Len(ActiveQueuesOf(u)) >= MAX_ACTIVE_QUEUES_PER_USER =>
            /\ \A n \in QuotaTaskCounts, c \in QuotaConcurrencyInputs :
                  create_generation_queue(u, n, c, AllQIds) =>
                     /\ ret' = [op |-> "create", ok |-> FALSE]
                     /\ UNCHANGED <<qdata, qtasks, user_queues, rq, next_id>>
            /\ user_queues'[u] = user_queues[u]
            /\ \A q \in AllQIds :
                  qdata[q] = NoData => (qdata'[q] = NoData \/ qdata'[q].user_id # u)
      ]_vars

(* C6 witness: a create call has just been rejected for an owner holding 5  *)
(* active queues                                                            *)
C6_Witness ==
    /\ ret = [op |-> "create", ok |-> FALSE]
    /\ \E u \in Users : Len(ActiveQueuesOf(u)) = MAX_ACTIVE_QUEUES_PER_USER

C8_CancelledStays ==
    [][\A q \in AllQIds :
          /\ (qdata[q] # NoData /\ CancelledA(q)) => CancelledA(q)'
          /\ rinfo[q].status = "cancelled" => rinfo'[q].status = "cancelled"
      ]_vars

(* C9: cancel_queue called with a user id that is not the queue's owner     *)
(* returns false and leaves the queue record, its pending tasks and its     *)
(* jobs unchanged.                                                          *)
C9_NonOwnerCancelRejected ==
    [][\A u \in Users, q \in AllQIds :
          /\ (cancel_queue_get(u, q) /\ qdata[q] # NoData /\ qdata[q].user_id # u) =>
                /\ ret' = [op |-> "cancel", ok |-> FALSE]
                /\ UNCHANGED <<qdata, qtasks, rq, done_sets, wk, canc>>
          /\ (RQS_cancel_queue(u, q) /\ rinfo[q] # NoInfo /\ rinfo[q].user_id # u) =>
                /\ ret' = [op |-> "cancel", ok |-> FALSE]
                /\ UNCHANGED <<rinfo, rpending, disp>>
      ]_vars

(* C9 witness: a cancel by the other user has just been rejected on an      *)
(* existing queue that still has pending jobs                               *)
C9_Witness ==
    \E q \in AllQIds :
        /\ qdata[q] # NoData
        /\ rq[q] # <<>>
        /\ ret = [op |-> "cancel", ok |-> FALSE]

(* C10: cancel_queue is idempotent: a second call by the owner on an        *)
(* already cancelled queue returns the same result (true) and leaves        *)
(* status, counts and pending set as the first call left them.              *)
C10_CancelIdempotent ==
    [][/\ (cancel_queue_set /\ canc.snap = qdata[canc.q] /\ CancelledA(canc.q)) =>
            /\ qdata'[canc.q].status = qdata[canc.q].status
            /\ qdata'[canc.q].error = qdata[canc.q].error
            /\ qdata'[canc.q].total_completed = qdata[canc.q].total_completed
            /\ qdata'[canc.q].total_failed = qdata[canc.q].total_failed
            /\ qdata'[canc.q].completed_tasks = qdata[canc.q].completed_tasks
            /\ qdata'[canc.q].failed_tasks = qdata[canc.q].failed_tasks
            /\ rq' = rq
            /\ ret' = [op |-> "cancel", ok |-> TRUE]
       /\ \A u \in Users, q \in AllQIds :
            (RQS_cancel_queue(u, q) /\ rinfo[q].user_id = u /\ rinfo[q].status = "cancelled") =>
                /\ rinfo' = rinfo
                /\ rpending' = rpending
                /\ ret' = [op |-> "cancel", ok |-> TRUE]
      ]_vars

(* C10 witness: the first call has returned true and a second call by the   *)
(* owner has read the already cancelled record and is about to write        *)
C10_Witness ==
    /\ canc.pc = "write"
    /\ canc.snap = qdata[canc.q]
    /\ CancelledA(canc.q)
    /\ ret = [op |-> "cancel", ok |-> TRUE]

(* statuses in which a queue is still to be worked on, and terminal ones *)
UnfinishedStatuses == {"waiting", "processing"}
TerminalStatuses == {"completed", "failed", "cancelled"}

(* C11: when the service restarts while a queue is waiting or processing,   *)
(* the start-up sequence marks that queue failed before any dispatcher      *)
(* accepts work: after startup_event no queue of the previous run is still  *)
(* waiting or processing, and none of them is handed to a dispatcher.       *)
C11_RestartMarksUnfinishedFailed ==
    [][/\ startup_event =>
            \A q \in AllQIds :
                /\ rinfo'[q].status \notin UnfinishedStatuses
                /\ qdata'[q].status \notin UnfinishedStatuses
       /\ \A q \in AllQIds : (boot_id > 0 /\ q < boot_id) => ~process_queues(q)
      ]_vars

(* C12: get_queue_status writes the corrected status back when completed +  *)
(* failed >= total while the stored status is not terminal, so the stored   *)
(* record holds a terminal status once the call has returned.               *)
C12_StatusReadSelfHeals ==
    [][\A q \in AllQIds :
          /\ (/\ RQS_get_queue_status_call(q)
              /\ rinfo[q] # NoInfo
              /\ RQS_completed_count(q) + RQS_failed_count(q) >= rinfo[q].total_tasks
              /\ rinfo[q].status \notin TerminalStatuses) =>
                 /\ ret'.status \in TerminalStatuses
                 /\ rinfo'[q].status \in TerminalStatuses
          /\ (/\ QS_get_queue_status(q)
              /\ qdata[q] # NoData
              /\ qdata[q].total_completed + qdata[q].total_failed >= qdata[q].total_tasks
              /\ qdata[q].status \notin TerminalStatuses) =>
                 /\ ret'.status \in TerminalStatuses
                 /\ qdata'[q].status \in TerminalStatuses
      ]_vars

(* C13: over consecutive failed worker runs the backoff delay waited before *)
(* the next restart strictly increases across the first 3 consecutive      *)
(* failures, and the delay after the 4th failure is strictly greater than  *)
(* the delay after a single failure (also when all of them fall within     *)
(* RAPID_WINDOW seconds of the worker's start).                            *)
C13_BackoffIncreases ==
    [][\A d \in RunDurations :
          monitor_worker_exit(FALSE, d) =>
             /\ mon.streak \in 1..2 => mon'.sleep_time > mon.sleep_time
             /\ mon.streak = 3 =>
                    mon'.sleep_time > BackoffSleepTime(INITIAL_BACKOFF, 1)
             /\ mon.streak = 0 =>
                    mon'.sleep_time = BackoffSleepTime(INITIAL_BACKOFF, 1)
      ]_vars

(* C13 witness: the 4th consecutive failure, each run having failed inside *)
(* the rapid window, has just been followed by its backoff wait            *)
C13_Witness ==
    /\ mon.pc = "loop"
    /\ mon.streak = 4
    /\ mon.consecutive_rapid_failures = 3
    /\ mon.since_start < RAPID_WINDOW
    /\ mon.slept = "backoff"

(* C14: the exponential backoff delay computed by monitor_worker never      *)
(* exceeds 120 seconds, for every retry_count.                              *)
C14_BackoffCapped ==
    /\ mon.slept = "backoff" => mon.sleep_time <= BACKOFF_CAP
    /\ mon.retry_count >= 1 =>
           BackoffSleepTime(mon.backoff_time, mon.retry_count) <= BACKOFF_CAP

(* C14 witness: a backoff wait for which the uncapped value is above the cap *)
C14_Witness ==
    /\ mon.slept = "backoff"
    /\ mon.retry_count >= 1
    /\ INITIAL_BACKOFF * (BACKOFF_BASE ^ (mon.retry_count - 1)) > BACKOFF_CAP
    /\ mon.sleep_time = BACKOFF_CAP

(* C15: after more than max_retries consecutive failed runs monitor_worker  *)
(* waits the long fixed interval of 300 seconds and resets its retry        *)
(* counter instead of waiting at the 120-second cap again; after every      *)
(* failed run, exhausted or not, it goes on to start the worker again.      *)
C15_LongWaitThenRetry ==
    [][\A d \in RunDurations :
          monitor_worker_exit(FALSE, d) =>
             /\ mon'.pc = "loop"
             /\ mon.retry_count >= MAX_RETRIES =>
                    /\ mon'.slept = "long"
                    /\ mon'.sleep_time = LONG_WAIT
                    /\ mon'.retry_count = 0
             /\ mon.retry_count < MAX_RETRIES =>
                    /\ mon'.slept = "backoff"
                    /\ mon'.retry_count = mon.retry_count + 1
      ]_vars

(* C15 witness: the long wait has been taken and the worker has been        *)
(* started again afterwards                                                 *)
C15_Witness ==
    /\ mon.slept = "long"
    /\ mon.sleep_time = LONG_WAIT
    /\ mon.retry_count = 0
    /\ mon.streak > MAX_RETRIES
    /\ mon.pc = "run"

(* C16: TimeEstimator.update called again with the step index of the       *)
(* previous call leaves the rolling window, last_step and last_step_time   *)
(* as they were, and the estimated remaining time it returns is the one    *)
(* the previous call returned.                                             *)
C16_DuplicateStepNoDoubleCount ==
    [][\A current_step \in 0..MaxSteps, tick \in Ticks :
          (TE_update(current_step, tick) /\ current_step = est.last_step) =>
             /\ est'.step_times = est.step_times
             /\ est'.last_step = est.last_step
             /\ est'.last_step_time = est.last_step_time
             /\ est'.result.remaining =
                    EstimatedRemaining(est.step_times, est.total_steps - est.last_step)
             /\ est.calls > 0 => est'.result.remaining = est.result.remaining
      ]_vars

(* C16 witness: a step was reported, then reported again later, with a     *)
(* non-empty window and a non-zero estimate                                *)
C16_Witness ==
    /\ est.calls >= 2
    /\ est.last_step > 0
    /\ est.now > est.last_step_time
    /\ est.step_times # <<>>
    /\ est.result.remaining[1] > 0

(* C17: if create_generation_queue fails at a step after it has started    *)
(* writing (metadata, task list, owner list, job enqueue), nothing written *)
(* for that queue id remains: no data key, no task key, no entry in the    *)
(* owner's list, no enqueued job.                                          *)
C17_FailedCreateLeavesNothing ==
    [][\A u \in Users, c \in ConcurrencyInputs :
          /\ create_generation_queue_store_fails(u, c, AllQIds) =>
                /\ qdata'[next_id] = NoData
                /\ qtasks'[next_id] = -1
                /\ rq'[next_id] = <<>>
                /\ \A i \in 1..Len(user_queues'[u]) : user_queues'[u][i] # next_id
          /\ \A n \in TaskCounts, k \in TaskCounts :
                create_generation_queue_enqueue_fails(u, n, k, c, AllQIds) =>
                   /\ qdata'[next_id] = NoData
                   /\ qtasks'[next_id] = -1
                   /\ rq'[next_id] = <<>>
                   /\ \A i \in 1..Len(user_queues'[u]) : user_queues'[u][i] # next_id
      ]_vars

(* C18: every queue-creation operation stores a concurrency within          *)
(* [1, 10], whatever integer was requested.                                 *)
C18_StoredConcurrencyClamped ==
    \A q \in AllQIds :
        /\ qdata[q] # NoData => qdata[q].concurrency \in MIN_CONCURRENCY..MAX_CONCURRENCY
        /\ rinfo[q] # NoInfo => rinfo[q].concurrency \in MIN_CONCURRENCY..MAX_CONCURRENCY

(* C19: the per-owner active-queue listing returns exactly the owner's      *)
(* queues whose status is waiting or processing (no completed, failed or    *)
(* cancelled queue, no other owner's queue), newest first.                  *)
C19_ActiveListingExact ==
    \A u \in Users :
        LET listed == QS_get_user_active_queues(u)
        IN  /\ {listed[i] : i \in 1..Len(listed)} =
                  {q \in AllQIds : /\ qdata[q] # NoData
                                   /\ qdata[q].user_id = u
                                   /\ qdata[q].status \in UnfinishedStatuses}
            /\ \A i \in 1..Len(listed), j \in 1..Len(listed) :
                  i < j => created_at(listed[i]) > created_at(listed[j])
            /\ RQS_get_user_active_queues(u) =
                  {q \in AllQIds : /\ rinfo[q] # NoInfo
                                   /\ rinfo[q].user_id = u
                                   /\ rinfo[q].status \in UnfinishedStatuses}

(* C20: a task's failure does not stop the queue's other pending and        *)
(* in-flight tasks, and once its report has returned the failure is         *)
(* recorded in the queue's failed list and counted in its failed count.     *)
C20_TaskFailureRecordedAndCounted ==
    [][/\ \A w \in Workers :
            report_task(w, FALSE) =>
                /\ rq' = rq
                /\ \A v \in Workers \ {w} : wk'[v] = wk[v]
       /\ \A w \in Workers :
            (/\ update_queue_status_set(w)
             /\ NeverCancelledOrMarked(wk[w].q)) =>
                LET q == wk[w].q
                    returned == {i \in done_sets[q].failed :
                                   \A v \in Workers :
                                      ~(wk'[v].pc # "idle" /\ wk'[v].q = q /\ wk'[v].image_id = i)}
                IN  /\ \A i \in returned :
                          \E k \in 1..Len(qdata'[q].failed_tasks) : qdata'[q].failed_tasks[k] = i
                    /\ qdata'[q].total_failed >= Cardinality(returned)
      ]_vars

(* queue_worker.py:58-68 the dispatcher's set `tasks` of in-flight tasks of   *)
(* queue q: it starts empty and a task is added only after get_next_task     *)
(* has returned one, which the call of line 62 never does (TypeError)        *)
QW_tasks(q) == {}

(* C21: in the dispatcher loop, each time the top-up step has finished, the  *)
(* number of in-flight tasks equals min(concurrency, pending + in_flight)    *)
(* as counted just before the top-up.                                        *)
C21_TopUpFillsToConcurrency ==
    [][\A q \in AllQIds :
          (/\ QW_start_queue(q)
           /\ rinfo[q] # NoInfo
           /\ rinfo[q].total_tasks # 0) =>
              Cardinality(QW_tasks(q)) =
                 Min(rinfo[q].concurrency, Len(rpending[q]) + Cardinality(QW_tasks(q)))
      ]_vars

(* queue_service.py:184-199, worker.py:62: the tasks of queue q handed to    *)
(* process_image_task so far (running, being reported, or reported)          *)
Started(q) ==
    {wk[w].image_id : w \in InFlight(q)} \cup done_sets[q].completed \cup done_sets[q].failed

(* the place of task t in the pending list written at creation: TaskList    *)
(* puts image id i at place i                                                *)
PlacedAt(t) == CHOOSE i \in 1..MaxTasks : TaskList(MaxTasks)[i] = t

(* C22: pending tasks of a queue are admitted to execution in FIFO order: a *)
(* task is never started before a task that was placed earlier in the same  *)
(* queue's pending list at creation.                                         *)
C22_PendingAdmittedFIFO ==
    \A q \in AllQIds :
        /\ \A s \in Started(q) :
              \A i \in 1..Len(rq[q]) : PlacedAt(s) < PlacedAt(rq[q][i])
        /\ \A s \in QW_tasks(q) :
              \A i \in 1..Len(rpending[q]) : PlacedAt(s) < PlacedAt(rpending[q][i])

(* the first task of a queue is running while a later one is still pending *)
C22_Witness ==
    \E q \in AllQIds, w \in Workers :
        /\ wk[w].pc = "running"
        /\ wk[w].q = q
        /\ rq[q] # <<>>
        /\ PlacedAt(wk[w].image_id) < PlacedAt(Head(rq[q]))

(* C25: no task is executed more than once: under any interleaving of      *)
(* dispatcher loops, supervisor discovery passes and worker restarts, the    *)
(* generation backend is invoked at most one time per task of a queue.       *)
C25_NoDuplicateExecution ==
    [][\A w \in Workers, q \in AllQIds :
          WorkerDequeue(w, q) =>
              /\ wk'[w].image_id \notin Started(q)
              /\ \A i \in 1..Len(rq'[q]) : rq'[q][i] # wk'[w].image_id
              /\ QW_tasks(q) = {}
      ]_vars

(* both tasks of a two-task queue have been executed and reported *)
C25_Witness ==
    \E q \in AllQIds :
        /\ qtasks[q] = 2
        /\ Reported(q) = 2
        /\ rq[q] = <<>>
        /\ InFlight(q) = {}

(* C27: a transient store error raised inside a dispatcher or supervisor    *)
(* loop makes that loop wait and retry; it never causes a task or a queue    *)
(* to be marked failed.                                                      *)
C27_StoreErrorNeverMarksFailed ==
    [][\A q \in AllQIds :
          QW_start_queue_store_error(q) =>
              /\ rinfo'[q].status = "failed" => rinfo[q].status = "failed"
              /\ qdata'[q].status = "failed" => qdata[q].status = "failed"
      ]_vars

(* i2v_api.py:43-60, 482 and worker.py:38: the statuses written while a     *)
(* task is being processed                                                   *)
ProcessingStatuses == {"initializing", "inference", "combining_video", "processing"}
(* the terminal statuses of a task *)
TaskTerminalStatuses == {"completed", "failed"}

(* C23: the progress value recorded for a task stays within 0..100 and      *)
(* never decreases between two successive writes while the task's status    *)
(* is processing, for every order of backend events.                        *)
C23_ProgressMonotoneInRange ==
    [][/\ i2v'.row.progress \in 0..FULL
       /\ (i2v.row.status \in ProcessingStatuses /\ i2v'.row.status \in ProcessingStatuses) =>
             i2v'.row.progress >= i2v.row.progress
       /\ \A k \in 1..Len(PIT_progress_writes) :
             /\ PIT_progress_writes[k] \in 0..FULL
             /\ k < Len(PIT_progress_writes) =>
                   PIT_progress_writes[k] <= PIT_progress_writes[k + 1]
      ]_vars

(* C24: a task's terminal outcome is written exactly once: after a task's   *)
(* status has become completed or failed (with its result or error), no     *)
(* later write changes its status, result or error.                         *)
C24_TerminalOutcomeWrittenOnce ==
    [][/\ bt.status \in TaskTerminalStatuses =>
             /\ bt'.status = bt.status
             /\ bt'.error = bt.error
       /\ i2v.row.status \in TaskTerminalStatuses =>
             /\ i2v'.row.status = i2v.row.status
             /\ i2v'.row.error_message = i2v.row.error_message
             /\ i2v'.row.video_path = i2v.row.video_path
      ]_vars

(* C28: for the two-stage image-to-video pipeline the overall percent is    *)
(* always 0.7 * inference_percent + 0.3 * combine_percent, and the value    *)
(* stored by process_video_generation agrees, up to integer truncation,     *)
(* with the percent_complete computed by generate_video for the same event  *)
(* sequence.                                                                *)
C28_StoredPercentAgrees ==
    [][\A node \in ProgressNodes, value \in 0..MaxProgressValue :
          I2V_progress(node, value) =>
              /\ i2v'.status.percent_complete =
                    i2v'.status.inference_progress * INFERENCE_WEIGHT
                       + i2v'.status.video_progress * COMBINE_WEIGHT
              /\ i2v'.row.progress = i2v'.status.percent_complete \div 10
      ]_vars

(* task i of queue q was taken by a worker whose process died: it is        *)
(* neither waiting, nor in flight, nor reported                              *)
Orphaned(q, i) ==
    /\ qdata[q] # NoData
    /\ i \in 1..qtasks[q]
    /\ \A k \in 1..Len(rq[q]) : rq[q][k] # i
    /\ \A w \in Workers : ~(wk[w].pc # "idle" /\ wk[w].q = q /\ wk[w].image_id = i)
    /\ i \notin done_sets[q].completed \cup done_sets[q].failed

(* C26: when a worker process dies unexpectedly while tasks are in flight   *)
(* under it, each of those tasks is eventually recorded as failed and       *)
(* counted in its queue's failed count.                                     *)
C26_DeadWorkerTasksFinalized ==
    \A q \in RaceQIds : \A i \in 1..MaxTasks :
        Orphaned(q, i) ~>
            /\ \E k \in 1..Len(qdata[q].failed_tasks) : qdata[q].failed_tasks[k] = i
            /\ qdata[q].total_failed >= 1

(* C29: liveness of the QueueService/RQ path: if the queue is not cancelled *)
(* and every enqueued process_image_task run terminates, the queue's stored *)
(* status eventually becomes completed or failed with                       *)
(* total_completed + total_failed == total_tasks.                           *)
C29_QueueEventuallyTerminal ==
    \A q \in RaceQIds :
        (qdata[q] # NoData) ~>
            /\ qdata[q].status \in {"completed", "failed"}
            /\ qdata[q].total_completed + qdata[q].total_failed = qdata[q].total_tasks

(* C30: liveness of the RedisQueueService/QueueWorker path: every task      *)
(* stored by create_queue in a queue's own pending list is eventually       *)
(* pulled by the dispatcher started for that queue, executed, and reflected *)
(* in that queue's completed or failed count, after which the queue's       *)
(* status is terminal (a cancelled queue is left out).                      *)
C30_StoredTasksEventuallyRun ==
    \A q \in RaceQIds :
        (rinfo[q] # NoInfo /\ rpending[q] # <<>>) ~>
            \/ rinfo[q].status = "cancelled"
            \/ /\ rpending[q] = <<>>
               /\ QW_tasks(q) = {}
               /\ RQS_completed_count(q) + RQS_failed_count(q) = rinfo[q].total_tasks
               /\ rinfo[q].status \in TerminalStatuses

(* C31: monitor_worker adds the extra anti-flapping cooldown exactly when   *)
(* more than 3 consecutive worker failures have each occurred within 30     *)
(* seconds of the previous worker start, the extra wait grows with the      *)
(* number of clustered failures, and the cluster counter returns to 0 as    *)
(* soon as a worker start is 30 seconds or more after the previous one.     *)
C31_AntiFlappingCooldown ==
    [][monitor_worker_start =>
          /\ mon'.extra_wait > 0 <=> mon.rapid_failed > RAPID_LIMIT
          /\ (mon.extra_wait > 0 /\ mon'.extra_wait > 0) =>
                mon'.extra_wait > mon.extra_wait
          /\ mon.since_start >= RAPID_WINDOW => mon'.consecutive_rapid_failures = 0
      ]_vars

(* C32: after any sequence of TimeEstimator.update calls (single steps,     *)
(* multi-step jumps, duplicates, out-of-order steps) the rolling window     *)
(* step_times holds at most 10 entries and they are the most recent ones:   *)
(* an update that records k durations leaves them at the end of the window, *)
(* preceded by the latest entries of the window before.                     *)
C32_WindowHoldsMostRecent ==
    [][\A current_step \in 0..MaxSteps, tick \in Ticks :
          TE_update(current_step, tick) =>
              LET old == est.step_times
                  new == est'.step_times
                  steps_taken == current_step - est.last_step
                  k == IF current_step = est.last_step THEN 0
                       ELSE IF steps_taken > 1 THEN steps_taken ELSE 1
                  newest == [num |-> est.now + tick - est.last_step_time,
                             den |-> IF steps_taken > 1 THEN steps_taken ELSE 1]
                  kept == Len(new) - Min(k, Len(new))
              IN  /\ Len(new) <= WINDOW_SIZE
                  /\ Len(new) = Min(WINDOW_SIZE, Len(old) + k)
                  /\ \A i \in (kept + 1)..Len(new) : new[i] = newest
                  /\ \A i \in 1..kept : new[i] = old[Len(old) - kept + i]
      ]_vars

(* a six-step jump, a backward step and another six-step jump: thirteen     *)
(* durations were recorded and the window holds the last ten                *)
C32_Witness ==
    /\ Len(est.step_times) = WINDOW_SIZE
    /\ est.step_times[1].den = 6
    /\ est.step_times[3].den = 6
    /\ est.step_times[4].den = 1
    /\ est.step_times[5].den = 6
    /\ est.step_times[WINDOW_SIZE].den = 6

(* C33: mark_unfinished_queues_as_failed changes exactly the queues whose   *)
(* status is waiting or processing (setting status failed and an error      *)
(* reason); queues already completed/failed, and the counts and task lists  *)
(* of every queue, are left unchanged, also when a task report for the same *)
(* queue runs concurrently.                                                 *)
C33_MarkChangesOnlyUnfinished ==
    [][mark_unfinished_set =>
          /\ qdata[mark.q].status \in UnfinishedStatuses
          /\ qdata'[mark.q] = [qdata[mark.q] EXCEPT !.status = "failed",
                                                    !.error = "restart"]
          /\ \A q \in AllQIds \ {mark.q} : qdata'[q] = qdata[q]
          /\ qtasks' = qtasks
          /\ done_sets' = done_sets
      ]_vars

(* main.py:306 / queue_worker.py:96-147: the start_queue coroutines of queue *)
(* q that have been created and have not returned                           *)
Dispatchers(q) == sleepers[q] + (IF disp[q] # "none" THEN 1 ELSE 0)

(* queue_worker.py:96-147 with main.py:310-320: the step in which the newest *)
(* start_queue coroutine of queue q returns and its done callback runs      *)
QW_start_queue_returns(q) ==
    /\ disp[q] # "none"
    /\ disp'[q] = "none"
    /\ \/ QW_start_queue(q)
       \/ QW_start_queue_except(q)
       \/ QW_start_queue_store_error(q)

(* C34: an operation on one queue (cancelling it, its dispatcher finishing)  *)
(* leaves the stored record of every other queue unchanged and leaves every  *)
(* other queue's membership of the supervisor's processing_queues unchanged. *)
C34_OtherQueuesUntouched ==
    [][\A q \in AllQIds :
          ((\E u \in Users : RQS_cancel_queue(u, q)) \/ QW_start_queue_returns(q)) =>
              \A p \in AllQIds \ {q} :
                  /\ rinfo'[p] = rinfo[p]
                  /\ rpending'[p] = rpending[p]
                  /\ (p \in processing_queues') = (p \in processing_queues)
      ]_vars

(* C35: a queue id is in processing_queues exactly while a start_queue task  *)
(* of that queue has not returned, and no queue has two start_queue tasks    *)
(* that have not returned.                                                   *)
C35_OneDispatcherPerQueue ==
    \A q \in AllQIds :
        /\ (q \in processing_queues) = (Dispatchers(q) > 0)
        /\ Dispatchers(q) <= 1

(* queue_service.py:390-430: the queues of owner u that count against the   *)
(* quota, read from the records themselves                                  *)
UnfinishedQueuesOf(u) ==
    {q \in AllQIds : /\ qdata[q] # NoData
                     /\ qdata[q].user_id = u
                     /\ qdata[q].status \in UnfinishedStatuses}

(* queue_service.py:52-141: the queues whose create_generation_queue call is *)
(* still between its first write and its return                             *)
BeingCreated == {cgq[c].queue_id : c \in {k \in Callers : cgq[k].pc # "idle"}}

(* C36: under any interleaving of concurrent create_generation_queue calls  *)
(* of one owner, the owner has at most MAX_ACTIVE_QUEUES_PER_USER queues in *)
(* status waiting or processing, and every queue whose creation returned    *)
(* is in the owner's queue list that the quota count reads.                 *)
C36_QuotaUnderConcurrentCreates ==
    \A u \in Users :
        /\ Cardinality(UnfinishedQueuesOf(u)) <= MAX_ACTIVE_QUEUES_PER_USER
        /\ \A q \in UnfinishedQueuesOf(u) \ BeingCreated :
              \E i \in DOMAIN user_queues[u] : user_queues[u][i] = q

(* i2v_api.py:197: the tasks whose process_video_generation call is running *)
RunningVideo == {t \in VideoTasks : vq.thread[t] = "running"}

(* C37: at most one process_video_generation runs at any time, and whenever *)
(* is_processing is false the task_queue is empty and no task is running.   *)
C37_OneVideoAtATime ==
    /\ Cardinality(RunningVideo) <= 1
    /\ ~vq.is_processing => (vq.task_queue = <<>> /\ RunningVideo = {})

(* a task runs while two others wait in task_queue, after an earlier task   *)
(* raised and its finally block reset the flag                              *)
C37_Witness ==
    /\ Cardinality(RunningVideo) = 1
    /\ Len(vq.task_queue) = 2
    /\ Len(vq.queued) = 2
    /\ \E t \in VideoTasks : vq.thread[t] = "done" /\ t \in vq.raised

(* i2v_api.py:159 / 210: the first n entries of a sequence *)
Prefix(seq, n) == SubSeq(seq, 1, n)

(* C38: every queued task is eventually handed to process_video_generation, *)
(* also when the task running before it raised, and queued tasks are        *)
(* started in the order in which they were queued.                          *)
C38_QueuedTasksRunInOrder ==
    /\ \A t \in VideoTasks :
          (vq.thread[t] = "queued") ~> (vq.thread[t] \in {"running", "finally", "done"})
    /\ [](LET startedq == SelectSeq(vq.started, LAMBDA t : \E i \in DOMAIN vq.queued : vq.queued[i] = t)
          IN  /\ Len(startedq) <= Len(vq.queued)
              /\ startedq = Prefix(vq.queued, Len(startedq)))

(* C39: after the standalone worker has received SIGTERM or SIGINT, the     *)
(* process exits only when every process_queue coroutine has returned: the  *)
(* coroutine is where the tasks in flight are awaited up to their completed *)
(* or failed write (queue_worker.py:135-137), so none is cut off by the     *)
(* exit.                                                                     *)
C39_GracefulStop ==
    sw.exited => \A q \in AllQIds : sw.process_queue[q] # "cancelled"

(* worker.py:62-221: the step in which worker w's run of process_image_task *)
(* returns                                                                  *)
RunTerminates(w) == wk[w].pc # "idle" /\ wk'[w] = IdleWorker

(* queue_service.py:254-262: the number of entries of a task list of the    *)
(* record that are task i                                                   *)
Occurrences(list, i) == Cardinality({k \in DOMAIN list : list[k] = i})

(* C40: every run of process_image_task that terminates has reported its    *)
(* task exactly once: when it returns, the queue record lists the task once *)
(* in completed_tasks or once in failed_tasks, never in both and never in   *)
(* neither.                                                                  *)
C40_ReportedExactlyOnce ==
    [][\A w \in Workers :
          RunTerminates(w) =>
              LET rec == qdata'[wk[w].q]
              IN  Occurrences(rec.completed_tasks, wk[w].image_id)
                    + Occurrences(rec.failed_tasks, wk[w].image_id) = 1
      ]_vars

====
